---- MODULE Spec2Model ----
(***************************************************************************)
(* Model of the intent-routing and retrieval-orchestration core:           *)
(* AgentOrchestrator (app/agents/orchestrator.py), the three agents it     *)
(* drives and the ambiguity detector.  Strings the code inspects           *)
(* (utterances, contexts, snippets) are sequences of one-character         *)
(* strings; dictionaries are functions whose DOMAIN is the set of keys.    *)
(***************************************************************************)
EXTENDS Integers, Sequences, FiniteSets, TLC

(***************************************************************************)
(* Bounds of the model.                                                    *)
(***************************************************************************)
\* longest generated utterance, in tokens
MaxTokens == 4

\* longest list a retrieval capability returns
MaxHits == 4

(***************************************************************************)
(* Python str operations, on sequences of characters.                      *)
(***************************************************************************)
\* str.isspace characters (the \s class of re)
Whitespace == {" ", "\n", "\t"}

\* characters that are not in the \w class of re
NonWordChars == Whitespace \cup {"-", "'", "?", "!", ".", ","}

IsWordChar(c) == c \notin NonWordChars

UpperToLower ==
  ("A" :> "a") @@ ("B" :> "b") @@ ("C" :> "c") @@ ("D" :> "d") @@ ("E" :> "e") @@ ("F" :> "f") @@ ("G" :> "g") @@ ("H" :> "h") @@ ("I" :> "i") @@ ("J" :> "j") @@ ("K" :> "k") @@ ("L" :> "l") @@ ("M" :> "m") @@ ("N" :> "n") @@ ("O" :> "o") @@ ("P" :> "p") @@ ("Q" :> "q") @@ ("R" :> "r") @@ ("S" :> "s") @@ ("T" :> "t") @@ ("U" :> "u") @@ ("V" :> "v") @@ ("W" :> "w") @@ ("X" :> "x") @@ ("Y" :> "y") @@ ("Z" :> "z")

\* str.lower()
lower(s) ==
  [i \in 1..Len(s) |-> IF s[i] \in DOMAIN UpperToLower THEN UpperToLower[s[i]] ELSE s[i]]

RECURSIVE lstrip(_)
lstrip(s) == IF s # <<>> /\ Head(s) \in Whitespace THEN lstrip(Tail(s)) ELSE s

RECURSIVE rstrip(_)
rstrip(s) ==
  IF s # <<>> /\ s[Len(s)] \in Whitespace THEN rstrip(SubSeq(s, 1, Len(s) - 1)) ELSE s

\* str.strip()
strip(s) == rstrip(lstrip(s))

RECURSIVE SplitAcc(_, _, _)
SplitAcc(s, cur, acc) ==
  IF s = <<>>
    THEN (IF cur = <<>> THEN acc ELSE Append(acc, cur))
    ELSE IF Head(s) \in Whitespace
      THEN SplitAcc(Tail(s), <<>>, IF cur = <<>> THEN acc ELSE Append(acc, cur))
      ELSE SplitAcc(Tail(s), Append(cur, Head(s)), acc)

\* str.split() with no separator: the maximal runs of non-whitespace
split(s) == SplitAcc(s, <<>>, <<>>)

\* the Python test  sub in s
contains(sub, s) ==
  \E i \in 1..(Len(s) - Len(sub) + 1) : SubSeq(s, i, i + Len(sub) - 1) = sub

\* " ".join(tokens)
RECURSIVE join(_)
join(ts) ==
  IF ts = <<>> THEN <<>>
  ELSE IF Len(ts) = 1 THEN ts[1]
  ELSE ts[1] \o <<" ">> \o join(Tail(ts))

\* any(k in s for k in keywords)
any_in(keywords, s) == \E k \in keywords : contains(k, s)

(***************************************************************************)
(* re.search for the shapes the ambiguity patterns have.                   *)
(***************************************************************************)
\* \b at position i of s: between s[i-1] and s[i]
WordBoundary(s, i) ==
  LET before == i > 1 /\ IsWordChar(s[i - 1])
      after  == i <= Len(s) /\ IsWordChar(s[i])
  IN  before # after

\* the literal p matches s at i with \b on both sides
PhraseAt(s, i, p) ==
  /\ i + Len(p) - 1 <= Len(s)
  /\ s[i] = p[1]
  /\ WordBoundary(s, i)
  /\ WordBoundary(s, i + Len(p))
  /\ SubSeq(s, i, i + Len(p) - 1) = p

\* re.search(r'\b(p1|p2|...)\b', s, re.IGNORECASE)
search_phrase(P, s) ==
  LET ls == lower(s)
  IN  \E p \in P : \E i \in 1..Len(s) : PhraseAt(ls, i, p)

\* re.search(r'\b(h1|h2|...)\b.*\b(t1|t2|...)\b', s, re.IGNORECASE), s without newline
search_head_tail(H, T, s) ==
  LET ls == lower(s)
  IN  \E h \in H : \E i \in 1..Len(s) :
        /\ PhraseAt(ls, i, h)
        /\ \E t \in T : \E j \in (i + Len(h))..Len(s) : PhraseAt(ls, j, t)

(***************************************************************************)
(* Words and keyword lists of the source.                                  *)
(***************************************************************************)
w_hi == <<"h","i">>
w_hello == <<"h","e","l","l","o">>
w_hey == <<"h","e","y">>
w_ok == <<"o","k">>
w_this == <<"t","h","i","s">>
w_search == <<"s","e","a","r","c","h">>
w_find == <<"f","i","n","d">>
w_look_up == <<"l","o","o","k"," ","u","p">>
w_document == <<"d","o","c","u","m","e","n","t">>
w_pdf == <<"p","d","f">>
w_file == <<"f","i","l","e">>
w_he == <<"h","e">>
w_she == <<"s","h","e">>
w_it == <<"i","t">>
w_they == <<"t","h","e","y">>
w_that == <<"t","h","a","t">>
w_the == <<"t","h","e">>

\* ['hi', 'hello', 'hey']
GreetingTokens == {w_hi, w_hello, w_hey}

\* ["search", "find", "look up"]
SearchKeywords == {w_search, w_find, w_look_up}

\* ["document", "pdf", "file"]
DocumentKeywords == {w_document, w_pdf, w_file}

\* ["he", "she", "it", "they", "that", "this", "the"]
ReferenceTerms == {w_he, w_she, w_it, w_they, w_that, w_this, w_the}

\* alternatives of the first group of the vague-quantity pattern
VagueQuantityHead ==
  { <<"h","o","w"," ","m","a","n","y">>,
    <<"h","o","w"," ","m","u","c","h">>,
    <<"w","h","a","t"," ","i","s"," ","n","u","m","b","e","r">>,
    <<"w","h","a","t"," ","i","s"," ","a","m","o","u","n","t">>,
    <<"w","h","a","t"," ","i","s"," ","q","u","a","n","t","i","t","y">>,
    <<"w","h","a","t"," ","i","s"," ","t","h","e"," ","n","u","m","b","e","r">>,
    <<"w","h","a","t"," ","i","s"," ","t","h","e"," ","a","m","o","u","n","t">>,
    <<"w","h","a","t"," ","i","s"," ","t","h","e"," ","q","u","a","n","t","i","t","y">>,
    <<"w","h","a","t"," ","a","r","e"," ","n","u","m","b","e","r">>,
    <<"w","h","a","t"," ","a","r","e"," ","a","m","o","u","n","t">>,
    <<"w","h","a","t"," ","a","r","e"," ","q","u","a","n","t","i","t","y">>,
    <<"w","h","a","t"," ","a","r","e"," ","t","h","e"," ","n","u","m","b","e","r">>,
    <<"w","h","a","t"," ","a","r","e"," ","t","h","e"," ","a","m","o","u","n","t">>,
    <<"w","h","a","t"," ","a","r","e"," ","t","h","e"," ","q","u","a","n","t","i","t","y">> }

\* alternatives of the second group of the vague-quantity pattern
VagueQuantityTail ==
  { <<"e","n","o","u","g","h">>,
    <<"s","u","f","f","i","c","i","e","n","t">>,
    <<"g","o","o","d">>,
    <<"r","e","q","u","i","r","e","d">>,
    <<"n","e","c","e","s","s","a","r","y">>,
    <<"a","d","e","q","u","a","t","e">>,
    <<"a","p","p","r","o","p","r","i","a","t","e">>,
    <<"s","u","i","t","a","b","l","e">>,
    <<"d","e","c","e","n","t">>,
    <<"r","e","a","s","o","n","a","b","l","e">>,
    <<"a","c","c","e","p","t","a","b","l","e">>,
    <<"s","a","t","i","s","f","a","c","t","o","r","y">>,
    <<"o","p","t","i","m","a","l">>,
    <<"i","d","e","a","l">>,
    <<"r","e","c","o","m","m","e","n","d","e","d">>,
    <<"s","u","g","g","e","s","t","e","d">> }

\* alternatives of the first group of the vague-quality pattern
VagueQualityHead ==
  { <<"i","s">>,
    <<"a","r","e">>,
    <<"d","o","e","s">>,
    <<"d","o">>,
    <<"w","i","l","l">>,
    <<"w","o","u","l","d">>,
    <<"c","a","n">>,
    <<"c","o","u","l","d">>,
    <<"s","h","o","u","l","d">>,
    <<"m","i","g","h","t">>,
    <<"m","a","y">> }

\* alternatives of the second group of the vague-quality pattern
VagueQualityTail ==
  { <<"b","a","d">>,
    <<"w","o","r","s","e">>,
    <<"f","a","s","t","e","r">>,
    <<"s","l","o","w","e","r">>,
    <<"m","o","r","e"," ","a","c","c","u","r","a","t","e">>,
    <<"l","e","s","s"," ","a","c","c","u","r","a","t","e">>,
    <<"m","o","r","e"," ","e","f","f","i","c","i","e","n","t">>,
    <<"l","e","s","s"," ","e","f","f","i","c","i","e","n","t">>,
    <<"m","o","r","e"," ","e","f","f","e","c","t","i","v","e">>,
    <<"l","e","s","s"," ","e","f","f","e","c","t","i","v","e">>,
    <<"s","u","p","e","r","i","o","r">>,
    <<"i","n","f","e","r","i","o","r">>,
    <<"p","r","e","f","e","r","a","b","l","e">>,
    <<"o","p","t","i","m","a","l">> }

\* (which|what) (is|are) (better)
VagueComparison ==
  { <<"w","h","i","c","h"," ","i","s"," ","b","e","t","t","e","r">>,
    <<"w","h","i","c","h"," ","a","r","e"," ","b","e","t","t","e","r">>,
    <<"w","h","a","t"," ","i","s"," ","b","e","t","t","e","r">>,
    <<"w","h","a","t"," ","a","r","e"," ","b","e","t","t","e","r">> }

\* alternatives of the vague-request pattern
VagueRequest ==
  { <<"t","e","l","l"," ","m","e"," ","a","b","o","u","t">>,
    <<"w","h","a","t"," ","i","s">>,
    <<"w","h","a","t"," ","a","r","e">>,
    <<"e","x","p","l","a","i","n">>,
    <<"d","e","s","c","r","i","b","e">>,
    <<"h","o","w"," ","d","o">>,
    <<"h","o","w"," ","d","o","e","s">>,
    <<"w","h","a","t"," ","d","o">>,
    <<"w","h","a","t"," ","d","o","e","s">>,
    <<"w","h","a","t"," ","i","s"," ","t","h","e">>,
    <<"w","h","a","t"," ","i","s"," ","a">>,
    <<"w","h","a","t"," ","i","s"," ","a","n">>,
    <<"w","h","a","t"," ","a","r","e"," ","t","h","e">>,
    <<"w","h","a","t"," ","a","r","e"," ","a">>,
    <<"w","h","a","t"," ","a","r","e"," ","a","n">>,
    <<"c","a","n"," ","y","o","u"," ","t","e","l","l">>,
    <<"c","a","n"," ","y","o","u"," ","e","x","p","l","a","i","n">>,
    <<"c","a","n"," ","y","o","u"," ","d","e","s","c","r","i","b","e">> }

BriefClarification == "Your question seems a bit brief. Could you provide more details?"
BriefExample == "For example, instead of 'How to?', try 'How do I implement a neural network in PyTorch for image classification?'"
QuantityClarification == "I'm not sure I understand your question. Could you explain what you mean by 'enough' in this context?"
QuantityExample == "For example, instead of 'How many examples are enough for good accuracy?', try 'How many training examples do I need to achieve 95% accuracy on the test set for sentiment analysis?'"
QualityClarification == "I'm not sure I understand your question. Could you explain what you mean by 'good/bad' in this context?"
QualityExample == "For example, instead of 'Is this model good?', try 'How does this model's 90% accuracy compare to state-of-the-art on the IMDB dataset?'"
ComparisonClarification == "To help you compare effectively, could you explain what you mean by 'better' in this context?"
ComparisonExample == "For example, instead of 'Which model is better?', try 'Which model has higher F1 score on small text classification tasks with limited training data?'"
RequestClarification == "I'd be happy to help! Could you be more specific about what you'd like to know?"
RequestExample == "For example, instead of 'Tell me about transformers', try 'What are the key components of the transformer architecture in NLP?'"

\* the short-or-incomplete test that opens _detect_ambiguity
is_brief(message) ==
  Len(split(strip(message))) <= 3 /\ ~ any_in(GreetingTokens, lower(message))

\* AgentOrchestrator._detect_ambiguity: <<is_ambiguous, clarification, example>>
_detect_ambiguity(message) ==
  IF is_brief(message)
    THEN <<TRUE, BriefClarification, BriefExample>>
  ELSE IF search_head_tail(VagueQuantityHead, VagueQuantityTail, message)
    THEN <<TRUE, QuantityClarification, QuantityExample>>
  ELSE IF search_head_tail(VagueQualityHead, VagueQualityTail, message)
    THEN <<TRUE, QualityClarification, QualityExample>>
  ELSE IF search_phrase(VagueComparison, message)
    THEN <<TRUE, ComparisonClarification, ComparisonExample>>
  ELSE IF search_phrase(VagueRequest, message)
    THEN <<TRUE, RequestClarification, RequestExample>>
  ELSE <<FALSE, "", "">>

(***************************************************************************)
(* Utterances.                                                             *)
(***************************************************************************)
ScenarioC == <<"W","h","a","t"," ","d","o","e","s"," ","t","h","e"," ","Z","h","a","n","g"," ","p","a","p","e","r"," ","s","a","y"," ","a","b","o","u","t"," ","t","r","a","n","s","f","o","r","m","e","r","s"," ","f","i","n","e","-","t","u","n","i","n","g"," ","s","t","r","a","t","e","g","i","e","s">>

GoodMorning == <<"g","o","o","d"," ","m","o","r","n","i","n","g">>

WhichIsBetter == <<"w","h","i","c","h"," ","i","s"," ","b","e","t","t","e","r">>

HowMuchIsGood == <<"h","o","w"," ","m","u","c","h"," ","i","s"," ","g","o","o","d">>

IsThisOkOptimal == <<"i","s"," ","t","h","i","s"," ","o","k"," ","o","p","t","i","m","a","l">>

PaddedOk == <<" "," ","o","k"," ">>

FindThePaper == <<"f","i","n","d"," ","t","h","e"," ","p","a","p","e","r"," ","p","l","e","a","s","e">>

PdfSummaryPlease == <<"p","d","f"," ","s","u","m","m","a","r","y"," ","p","l","e","a","s","e"," ","n","o","w">>

WhatAboutHim == <<"w","h","a","t"," ","a","b","o","u","t"," ","h","i","m">>

ThisThing == <<"t","h","i","s"," ","t","h","i","n","g">>

ExplainAttentionHeadsPlease ==
  <<"e","x","p","l","a","i","n"," ","a","t","t","e","n","t","i","o","n"," ","h","e","a","d","s"," ","p","l","e","a","s","e">>

NamedUtterances ==
  { ScenarioC, GoodMorning, WhichIsBetter, HowMuchIsGood, IsThisOkOptimal,
    PaddedOk, FindThePaper, PdfSummaryPlease, WhatAboutHim, ThisThing,
    ExplainAttentionHeadsPlease }

Vocab == {w_hi, w_ok}

TokenSeqs == UNION {[1..n -> Vocab] : n \in 1..MaxTokens}

Messages == {join(ts) : ts \in TokenSeqs} \cup NamedUtterances

(***************************************************************************)
(* Python dict operations, on functions.                                   *)
(***************************************************************************)
\* {}
EmptyDict == <<>>

\* d.get(k, default)
Get(d, k, default) == IF k \in DOMAIN d THEN d[k] ELSE default

\* d[k] = v
Put(d, k, v) == (k :> v) @@ d

\* d.update(e), {**d, **e}
Update(d, e) == e @@ d

\* d.setdefault(k, v)
SetDefault(d, k, v) == IF k \in DOMAIN d THEN d ELSE Put(d, k, v)

\* state["metadata"][k] = v
PutMeta(state, k, v) == Put(state, "metadata", Put(state["metadata"], k, v))

Min(a, b) == IF a <= b THEN a ELSE b

(***************************************************************************)
(* Texts of the replies.  A reply is a record: a fixed head, the rendered  *)
(* entries, a tail.  Confidences are in hundredths.                        *)
(***************************************************************************)
Text(h) == [head |-> h, entries |-> <<>>, tail |-> ""]

GreetingText == Text("Hello! How can I assist you today?")
FoundText(entries) == [head |-> "Here's what I found:", entries |-> entries, tail |-> ""]
FoundAboutThatText(entries) ==
  [head |-> "Here's what I found about that:", entries |-> entries, tail |-> ""]
NotFoundText ==
  Text("I couldn't find any relevant information. Could you please provide more details or try a different query?")
FollowUpNotFoundText ==
  Text("I'm having trouble finding more information about that. Could you rephrase your question or provide more context?")
NotFoundQuestions ==
  << "Would you like me to search the web for this information?",
     "Would you like to try a different query?" >>
RephraseQuestion == "I'm having trouble understanding your request. Could you please rephrase?"
NodeErrorText(agent_name) ==
  [head |-> "An error occurred while processing your request with", entries |-> <<>>,
   tail |-> agent_name]
NodeErrorQuestion(agent_name) ==
  CASE agent_name = "pdf_query" ->
         "I encountered an error with the pdf_query agent. Would you like to try again?"
    [] agent_name = "web_search" ->
         "I encountered an error with the web_search agent. Would you like to try again?"
    [] OTHER ->
         "I encountered an error with the response agent. Would you like to try again?"
NotSureText == Text("I'm not sure how to respond to that.")
ProcessedText == Text("I've processed your request.")
ApologyText == Text("I encountered an error processing your request. Please try again.")

\* the test of a response already set: state.get("response") is truthy
HasResponse(state) == "response" \in DOMAIN state /\ state["response"] # Text("")

Sessions == {"s1", "s2"}

(***************************************************************************)
(* Answers of the language-model oracle.                                   *)
(***************************************************************************)
Labels == {"greeting", "pdf_query", "web_search", "follow_up", "clarification_needed"}

\* context texts the classifier may hand back for a follow-up
CtxSearch == <<"s","e","a","r","c","h"," ","r","e","s","u","l","t","s">>
CtxPaper == <<"z","h","a","n","g"," ","p","a","p","e","r">>

\* what llm.ainvoke(web_search_prompt) does: raises, answers text that is not
\* JSON, answers JSON that is not an object, or answers a JSON object; kind
\* "badconfidence" is an object whose is_web_search is true and whose
\* confidence float() rejects (such as "high" or null)
WebCheckAnswers ==
  { [kind |-> "raise", body |-> EmptyDict],
    [kind |-> "malformed", body |-> EmptyDict],
    [kind |-> "nondict", body |-> EmptyDict],
    [kind |-> "dict", body |-> EmptyDict],
    [kind |-> "dict", body |-> [is_web_search |-> FALSE, confidence |-> 90]],
    [kind |-> "dict", body |-> [is_web_search |-> TRUE]],
    [kind |-> "dict", body |-> [is_web_search |-> TRUE, confidence |-> 90,
                                reasoning |-> "asks to search online"]],
    [kind |-> "dict", body |-> [is_web_search |-> TRUE, confidence |-> 150]],
    [kind |-> "badconfidence", body |-> [is_web_search |-> TRUE]] }

\* what intent_classifier.ainvoke(...) does, likewise
ClassifierAnswers ==
  { [kind |-> "raise", body |-> EmptyDict],
    [kind |-> "malformed", body |-> EmptyDict],
    [kind |-> "nondict", body |-> EmptyDict],
    [kind |-> "dict", body |-> EmptyDict] }
  \cup { [kind |-> "dict", body |-> [intent |-> l, confidence |-> 70, reasoning |-> "r"]] :
           l \in Labels \cup {"other"} }
  \cup { [kind |-> "dict", body |-> [intent |-> "follow_up", confidence |-> 70,
                                     reasoning |-> "r", context |-> c]] :
           c \in {CtxSearch, CtxPaper} }

(***************************************************************************)
(* The classify_intent node.                                               *)
(***************************************************************************)
\* a normalization of the default fields that also logs itself in the trail
_initialize_state_Logs(state) ==
  LET s1 == SetDefault(state, "intent", "response")
      s2 == SetDefault(s1, "metadata", EmptyDict)
      s3 == Put(s2, "metadata", SetDefault(s2["metadata"], "intent_classification", EmptyDict))
  IN  Put(s3, "metadata",
          Put(s3["metadata"], "processing_steps",
              Append(Get(s3["metadata"], "processing_steps", <<>>), "initialized")))

\* AgentOrchestrator._initialize_state, the state it returns
_initialize_state(state) ==
  LET s1 == SetDefault(state, "intent", "response")
      s2 == SetDefault(s1, "metadata", EmptyDict)
  IN  Put(s2, "metadata", SetDefault(s2["metadata"], "intent_classification", EmptyDict))

\* Python values that are not dicts, where the normalization may meet them:
\* None and a string
PyNone == [py |-> "None"]
PyStr == [py |-> "str", value |-> "x"]

\* AgentOrchestrator._ensure_dict_state: a dict is copied, None becomes {},
\* a value dict() rejects becomes {'_state': value}
_ensure_dict_state(state) ==
  IF "py" \notin DOMAIN state THEN state
  ELSE IF state = PyNone THEN EmptyDict
  ELSE [_state |-> state]

\* AgentOrchestrator._initialize_intent_state
_initialize_intent_state(state) ==
  LET sd == _ensure_dict_state(state)
      s0 == Put(sd, "metadata", _ensure_dict_state(Get(sd, "metadata", EmptyDict)))
      s1 == SetDefault(s0, "messages", <<>>)
      s2 == SetDefault(s1, "intent", "response")
      s3 == SetDefault(s2, "needs_clarification", FALSE)
      s4 == SetDefault(s3, "clarification_questions", <<>>)
      s5 == SetDefault(s4, "search_results", <<>>)
  IN  _initialize_state(s5)

\* AgentOrchestrator._apply_keyword_fallback
_apply_keyword_fallback(state, query) ==
  IF any_in(SearchKeywords, lower(query)) THEN Put(state, "intent", "web")
  ELSE IF any_in(DocumentKeywords, lower(query)) THEN Put(state, "intent", "pdf")
  ELSE Put(state, "intent", "response")

\* AgentOrchestrator._handle_classification_error
_handle_classification_error(state, query) ==
  LET s == Update(state,
             [intent |-> "response", needs_clarification |-> TRUE,
              clarification_questions |-> <<RephraseQuestion>>])
  IN  IF query # <<>> THEN _apply_keyword_fallback(s, query) ELSE s

\* the flag test that opens _classify_intent_node: the flag is read from the
\* metadata of the last message
ForceFlag(last_message) ==
  Get(Get(last_message, "metadata", EmptyDict), "force_web_search", FALSE)

\* classification metadata of a forced turn
ForcedClassification ==
  [detected_intent |-> "web_search", confidence |-> 100, needs_clarification |-> FALSE,
   source |-> "force_web_search_flag"]

\* classification metadata of a positive explicit-web-search check
ExplicitClassification(result) ==
  [detected_intent |-> "web_search",
   confidence |-> Min(Get(result, "confidence", 80), 100),
   needs_clarification |-> FALSE,
   source |-> "llm_web_search_detection",
   reasoning |-> Get(result, "reasoning", "Detected as web search request by LLM")]

\* classification metadata recorded from the five-way classifier's answer
ClassifierClassification(classification) ==
  LET intent == Get(classification, "intent", "pdf_query")
  IN  [detected_intent |-> intent,
       confidence |-> Get(classification, "confidence", 100),
       needs_clarification |-> (intent = "clarification_needed"),
       reasoning |-> Get(classification, "reasoning", ""),
       source |-> "llm_intent_classifier",
       context |-> Get(classification, "context", <<>>)]

\* classification metadata of an utterance found ambiguous
AmbiguousClassification ==
  [detected_intent |-> "clarification_needed", confidence |-> 90,
   needs_clarification |-> TRUE, is_ambiguous |-> TRUE,
   reasoning |-> "Question was detected as ambiguous", source |-> "ambiguity_detector"]

\* the reply built from the detector's templates
ClarificationText(amb) == [head |-> amb[2], entries |-> <<>>, tail |-> amb[3]]

\* the ambiguity check run on every label, follow-ups included
ChecksAmbiguityAlways(intent) == TRUE

\* the guard of the ambiguity check in _classify_intent_node
ChecksAmbiguity(intent) == intent # "follow_up"

\* a follow-up resolution that looks at the context text alone
FollowUpWithContext_ContextOnly(state, query, context) ==
  LET s1 == PutMeta(state, "original_query", context \o <<" ">> \o query)
  IN  IF any_in(SearchKeywords, lower(context))
        THEN Put(s1, "intent", "web")
      ELSE Put(s1, "intent", "pdf")

\* the branch of a follow-up that has a context
FollowUpWithContext(state, query, context) ==
  LET s1 == PutMeta(state, "original_query", context \o <<" ">> \o query)
  IN  IF any_in(ReferenceTerms, lower(query))
        THEN PutMeta(Put(s1, "intent", "web"), "force_web_search", TRUE)
      ELSE IF any_in(SearchKeywords, lower(context))
        THEN Put(s1, "intent", "web")
      ELSE Put(s1, "intent", "pdf")

\* the dispatch on the classifier's label, after the ambiguity check
Dispatch(state, query, classification) ==
  LET intent == Get(classification, "intent", "pdf_query")
      context == Get(classification, "context", <<>>)
  IN  IF intent = "greeting"
        THEN Put(Put(state, "intent", "response"), "response", GreetingText)
      ELSE IF intent = "pdf_query"
        THEN PutMeta(Put(state, "intent", "pdf"), "original_query", query)
      ELSE IF intent = "follow_up" /\ context # <<>>
        THEN FollowUpWithContext(state, query, context)
      ELSE LET s1 == Put(state, "intent", IF intent = "web_search" THEN "web" ELSE "pdf")
               s2 == SetDefault(s1, "needs_clarification", FALSE)
               s3 == SetDefault(s2, "clarification_questions", <<>>)
           IN  SetDefault(s3, "search_results", <<>>)

\* step 3 of _classify_intent_node: the five-way classification and what
\* follows it.  Yields the node's state and what was called on the way.
ClassifyStep(state, query, clsAns) ==
  IF clsAns.kind # "dict"
    THEN [state |-> _handle_classification_error(state, query),
          classification |-> EmptyDict, detector |-> FALSE]
  ELSE
    LET classification == clsAns.body
        intent == Get(classification, "intent", "pdf_query")
        s1 == PutMeta(state, "intent_classification", ClassifierClassification(classification))
        amb == _detect_ambiguity(query)
    IN  IF ChecksAmbiguity(intent) /\ amb[1]
          THEN [state |-> PutMeta(Put(Put(s1, "intent", "response"),
                                      "response", ClarificationText(amb)),
                                  "intent_classification", AmbiguousClassification),
                classification |-> classification, detector |-> TRUE]
          ELSE [state |-> Dispatch(s1, query, classification),
                classification |-> classification, detector |-> ChecksAmbiguity(intent)]

\* _classify_intent_node up to its first await: the normalization, the read
\* of the last message and the test of the force flag.  done: the node returns.
ClassifyEntry(state0) ==
  LET state == _initialize_intent_state(state0)
      messages == state["messages"]
  IN  IF messages = <<>>
        THEN [done |-> TRUE, state |-> _handle_classification_error(state, <<>>)]
      ELSE IF ForceFlag(messages[Len(messages)])
        THEN [done |-> TRUE,
              state |-> PutMeta(Put(state, "intent", "web"),
                                "intent_classification", ForcedClassification)]
      ELSE [done |-> FALSE, state |-> state]

\* query = last_message.get("content", "").strip()
Query(state) ==
  LET messages == state["messages"]
  IN  strip(Get(messages[Len(messages)], "content", <<>>))

\* a step 2 that records a positive check and goes on to the classifier
WebCheckStep_NoShortCut(state, webAns) ==
  IF webAns.kind = "dict" /\ Get(webAns.body, "is_web_search", FALSE)
    THEN [done |-> FALSE,
          state |-> PutMeta(Put(state, "intent", "web"),
                            "intent_classification", ExplicitClassification(webAns.body))]
    ELSE [done |-> FALSE, state |-> state]

\* step 2 of _classify_intent_node, given the answer of llm.ainvoke
WebCheckStep(state, webAns) ==
  IF webAns.kind = "dict" /\ Get(webAns.body, "is_web_search", FALSE)
    THEN [done |-> TRUE,
          state |-> PutMeta(Put(state, "intent", "web"),
                            "intent_classification", ExplicitClassification(webAns.body))]
    ELSE IF webAns.kind = "badconfidence"
      THEN [done |-> FALSE, state |-> Put(state, "intent", "web")]
    ELSE [done |-> FALSE, state |-> state]

\* a routing that ends the turn at once when the response is already set
route_after_classify_EndsEarly(state) ==
  IF HasResponse(state)
    THEN "END"
  ELSE IF Get(Get(state, "metadata", EmptyDict), "force_web_search", FALSE)
    THEN "web_search"
  ELSE IF Get(state, "intent", "response") = "pdf" THEN "pdf_query"
  ELSE IF Get(state, "intent", "response") = "web" THEN "web_search"
  ELSE "response"

\* route_after_classify
route_after_classify(state) ==
  IF HasResponse(state)
    THEN "response"
  ELSE IF Get(Get(state, "metadata", EmptyDict), "force_web_search", FALSE)
    THEN "web_search"
  ELSE IF Get(state, "intent", "response") = "pdf" THEN "pdf_query"
  ELSE IF Get(state, "intent", "response") = "web" THEN "web_search"
  ELSE "response"

(***************************************************************************)
(* The retrieval capabilities and the three agents.                        *)
(***************************************************************************)
\* limit=3 of PDFQueryAgent.process
PdfLimit == 3

\* max_results of WebSearchService
WebMaxResults == 5

\* the [:3] slice and the 200-character cut of ResponseAgent.process
ShownResults == 3
SnippetLimit == 200

SampleText == <<" ","f","i","n","e"," "," ","t","u","n","i","n","g","\n">>
SampleTitle == <<"Z","h","a","n","g"," ">>
SampleSnippet == <<"a"," ","\n"," ","p","a","p","e","r">>

PdfHit(i) ==
  [id |-> i, score |-> 90, text |-> SampleText,
   metadata |-> [source |-> "zhang2023.pdf", page |-> i]]

WebHit(i) ==
  [title |-> SampleTitle, link |-> <<"https://example.org/", i>>,
   snippet |-> SampleSnippet, source |-> "web_search"]

\* a hit that is not a mapping: reading a field of it raises
BadHit == [malformed |-> TRUE]

\* texts around the 200-character cut: n letters in a row
Filler(n) == [i \in 1..n |-> "x"]

\* one character over the limit
OverLimitText == Filler(SnippetLimit) \o <<"y">>

\* exactly at the limit
AtLimitText == Filler(SnippetLimit - 1) \o <<"y">>

\* over the limit as stored, at the limit once its whitespace runs are collapsed
PaddedAtLimitText ==
  <<" ", "\n">> \o Filler(100) \o <<" ", "\n", "\t">> \o Filler(SnippetLimit - 101) \o <<"\n">>

\* over the limit once collapsed, with a space as its 200th character
SpaceAtCutText == Filler(SnippetLimit - 1) \o <<" ", " ", "y", "z">>

PdfHitWith(i, text) ==
  [id |-> i, score |-> 90, text |-> text, metadata |-> [source |-> "zhang2023.pdf", page |-> i]]

WebHitWith(i, snippet) ==
  [title |-> SampleTitle, link |-> <<"https://example.org/", i>>,
   snippet |-> snippet, source |-> "web_search"]

\* hit lists whose texts lie around the cut
LongPdfHits ==
  { <<PdfHitWith(1, OverLimitText), PdfHitWith(2, AtLimitText), PdfHitWith(3, PaddedAtLimitText)>>,
    <<PdfHitWith(1, SpaceAtCutText)>> }

LongWebHits ==
  { <<WebHitWith(1, OverLimitText), WebHitWith(2, AtLimitText), WebHitWith(3, PaddedAtLimitText)>>,
    <<WebHitWith(1, SpaceAtCutText)>> }

\* what vector_store.search_similar(query, limit=3, ...) does: raises, or
\* returns at most limit hits
PdfOutcomes ==
  { [raised |-> TRUE, hits |-> <<>>], [raised |-> FALSE, hits |-> <<BadHit>>] }
  \cup { [raised |-> FALSE, hits |-> [i \in 1..n |-> PdfHit(i)]] : n \in 0..Min(MaxHits, PdfLimit) }
  \cup { [raised |-> FALSE, hits |-> h] : h \in LongPdfHits }

\* what web_search_service.search(query) does
WebOutcomes ==
  { [raised |-> TRUE, hits |-> <<>>], [raised |-> FALSE, hits |-> <<BadHit>>] }
  \cup { [raised |-> FALSE, hits |-> [i \in 1..n |-> WebHit(i)]] :
           n \in 0..Min(MaxHits, WebMaxResults) }
  \cup { [raised |-> FALSE, hits |-> h] : h \in LongWebHits }

\* the query an agent reads: state.get("messages", [{}])[-1].get("content", "")
AgentQuery(state) ==
  LET messages == Get(state, "messages", <<EmptyDict>>)
  IN  Get(messages[Len(messages)], "content", <<>>)

\* PDFQueryAgent.process, given what search_similar does
PDFQueryAgent_process(state, outcome) ==
  IF outcome.raised
    THEN [raised |-> TRUE, state |-> state]
    ELSE [raised |-> FALSE,
          state |-> Put(Put(state, "search_results", outcome.hits),
                        "current_agent", "pdf_query_agent")]

\* WebSearchAgent.process, given what search does
WebSearchAgent_process(state, outcome) ==
  IF outcome.raised
    THEN [raised |-> TRUE, state |-> state]
    ELSE [raised |-> FALSE,
          state |-> Put(Put(state, "search_results", outcome.hits),
                        "current_agent", "web_search_agent")]

\* re.sub(r'\s+', ' ', text): every maximal run of whitespace becomes one
\* space.  A character is dropped when it is whitespace that follows
\* whitespace; whitespace that is kept becomes a space.
InsideRun(marked) == marked[1] \in Whitespace /\ marked[2]
CollapseWhitespace(s) ==
  LET marked == [i \in 1..Len(s) |-> <<s[i], i > 1 /\ s[i - 1] \in Whitespace>>]
      kept == SelectSeq(marked, LAMBDA m : ~ InsideRun(m))
  IN  [i \in 1..Len(kept) |-> IF kept[i][1] \in Whitespace THEN " " ELSE kept[i][1]]

\* ResponseAgent._clean_snippet
_clean_snippet(text) == IF text = <<>> THEN <<>> ELSE strip(CollapseWhitespace(text))

\* a cut at 200 characters that forgets the ellipsis
Truncate_NoEllipsis(text) ==
  IF Len(text) > SnippetLimit THEN SubSeq(text, 1, SnippetLimit) ELSE text

\* the cut at 200 characters
Truncate(text) ==
  IF Len(text) > SnippetLimit THEN SubSeq(text, 1, SnippetLimit) \o <<".", ".", ".">> ELSE text

\* search_results[:3]
Shown(search_results) == SubSeq(search_results, 1, Min(Len(search_results), ShownResults))

NoTitle == <<"N","o"," ","t","i","t","l","e">>
NoDescription ==
  <<"N","o"," ","d","e","s","c","r","i","p","t","i","o","n"," ","a","v","a","i","l","a","b","l","e">>

\* one web entry: "{i}. {title}\n   URL: {link}\n   Snippet: {snippet}\n"
FormatWeb(i, result) ==
  [n |-> i, title |-> strip(Get(result, "title", NoTitle)), URL |-> Get(result, "link", "#"),
   Snippet |-> Truncate(_clean_snippet(strip(Get(result, "snippet", NoDescription))))]

\* one document entry: "{i}. From {source} (Page {page}):\n   {text}\n"
FormatPdf(i, result) ==
  [n |-> i, From |-> Get(Get(result, "metadata", EmptyDict), "source", "Document"),
   Page |-> Get(Get(result, "metadata", EmptyDict), "page", ""),
   text |-> Truncate(_clean_snippet(strip(Get(result, "text", <<>>))))]

\* an empty-result branch that writes the message only
NotFoundState_TextOnly(state) == Put(state, "response", NotFoundText)

\* the branch of ResponseAgent.process taken when nothing was rendered
NotFoundState(state) ==
  Update(state, [response |-> NotFoundText,
                 needs_clarification |-> TRUE,
                 clarification_questions |-> NotFoundQuestions])

\* ResponseAgent.process past the test for a response already set
FormatResponse(state) ==
  LET metadata == Get(state, "metadata", EmptyDict)
      intent_classification == Get(metadata, "intent_classification", EmptyDict)
      is_follow_up == Get(intent_classification, "is_follow_up", FALSE)
      search_results == Get(state, "search_results", <<>>)
      current_agent == Get(state, "current_agent", "")
      shown == Shown(search_results)
      formats == current_agent \in {"web_search_agent", "pdf_query_agent"}
      formatted_results ==
        IF current_agent = "web_search_agent"
          THEN [i \in 1..Len(shown) |-> FormatWeb(i, shown[i])]
        ELSE IF current_agent = "pdf_query_agent"
          THEN [i \in 1..Len(shown) |-> FormatPdf(i, shown[i])]
        ELSE <<>>
  IN  IF is_follow_up /\ search_results = <<>>
        THEN [raised |-> FALSE, state |-> Put(state, "response", FollowUpNotFoundText)]
      ELSE IF formats /\ \E i \in 1..Len(shown) : shown[i] = BadHit
        THEN [raised |-> TRUE, state |-> state]
      ELSE IF formatted_results # <<>>
        THEN [raised |-> FALSE,
              state |-> Put(state, "response",
                            IF is_follow_up THEN FoundAboutThatText(formatted_results)
                            ELSE FoundText(formatted_results))]
      ELSE [raised |-> FALSE, state |-> NotFoundState(state)]

\* a formatter that renders whether or not a response is already set
ResponseAgent_process_NoShortCut(state) == FormatResponse(state)

\* ResponseAgent.process
ResponseAgent_process(state) ==
  IF HasResponse(state) THEN [raised |-> FALSE, state |-> state]
  ELSE FormatResponse(state)

(***************************************************************************)
(* The node wrapper and the routing after pdf_query.                       *)
(***************************************************************************)
ErrorStep(agent_name) ==
  CASE agent_name = "pdf_query" -> "pdf_query_error"
    [] agent_name = "web_search" -> "web_search_error"
    [] OTHER -> "response_error"

\* an except branch that leaves the trail of processing steps as it was
NodeFailure_NoMarker(agent_name, state) ==
  Update(state,
    [response |-> NodeErrorText(agent_name),
     metadata |-> [error |-> "agent failure", agent |-> agent_name, success |-> FALSE,
                   processing_steps |->
                     Get(Get(state, "metadata", EmptyDict), "processing_steps", <<>>)],
     needs_clarification |-> TRUE,
     clarification_questions |-> <<NodeErrorQuestion(agent_name)>>])

\* the except branch of node_func
NodeFailure(agent_name, state) ==
  Update(state,
    [response |-> NodeErrorText(agent_name),
     metadata |-> [error |-> "agent failure", agent |-> agent_name, success |-> FALSE,
                   processing_steps |->
                     Append(Get(Get(state, "metadata", EmptyDict), "processing_steps", <<>>),
                            ErrorStep(agent_name))],
     needs_clarification |-> TRUE,
     clarification_questions |-> <<NodeErrorQuestion(agent_name)>>])

\* a try branch that starts the trail of processing steps afresh
NodeSuccess_ResetsTrail(agent_name, state, agent_result) ==
  LET r0 == SetDefault(Update(state, agent_result), "metadata", EmptyDict)
      r1 == Put(r0, "metadata",
                Update(r0["metadata"],
                  [processed_by |-> agent_name, processing_steps |-> <<agent_name>>]))
      r2 == SetDefault(r1, "intent", Get(state, "intent", "response"))
      r3 == SetDefault(r2, "needs_clarification", FALSE)
      r4 == SetDefault(r3, "clarification_questions", <<>>)
      r5 == SetDefault(r4, "search_results", <<>>)
  IN  IF agent_name = "response" /\ "response" \notin DOMAIN r5
        THEN Put(r5, "response", ProcessedText)
        ELSE r5

\* the try branch of node_func
NodeSuccess(agent_name, state, agent_result) ==
  LET r0 == SetDefault(Update(state, agent_result), "metadata", EmptyDict)
      r1 == Put(r0, "metadata",
                Update(r0["metadata"],
                  [processed_by |-> agent_name,
                   processing_steps |->
                     Append(Get(r0["metadata"], "processing_steps", <<>>), agent_name)]))
      r2 == SetDefault(r1, "intent", Get(state, "intent", "response"))
      r3 == SetDefault(r2, "needs_clarification", FALSE)
      r4 == SetDefault(r3, "clarification_questions", <<>>)
      r5 == SetDefault(r4, "search_results", <<>>)
  IN  IF agent_name = "response" /\ "response" \notin DOMAIN r5
        THEN Put(r5, "response", ProcessedText)
        ELSE r5

\* node_func of _create_agent_node(agent_name), given what the agent did
node_func(agent_name, state, agent) ==
  IF agent.raised THEN NodeFailure(agent_name, state)
  ELSE NodeSuccess(agent_name, state, agent.state)

\* classification metadata of the fallback from documents to the web
FallbackClassification ==
  [detected_intent |-> "web_search", confidence |-> 80, needs_clarification |-> FALSE,
   source |-> "pdf_search_fallback"]

\* a routing after pdf_query that goes to response whatever was retrieved
route_after_pdf_NoFallback(state) == [next |-> "response", state |-> state]

\* route_after_pdf: the next node and the state it leaves
route_after_pdf(state) ==
  IF Get(state, "search_results", <<>>) # <<>>
    THEN [next |-> "response", state |-> state]
    ELSE [next |-> "web_search",
          state |-> PutMeta(Put(state, "intent", "web"),
                            "intent_classification", FallbackClassification)]

(***************************************************************************)
(* process_message.                                                        *)
(***************************************************************************)
\* a process_message that keeps, for session s1, a message of an earlier turn
\* in front of the current one
InitialState_Remembers(message, session_id, force_web_search) ==
  [messages |->
     IF session_id = "s1"
       THEN <<[role |-> "user", content |-> FindThePaper, metadata |-> EmptyDict],
              [role |-> "user", content |-> message, metadata |-> EmptyDict]>>
       ELSE <<[role |-> "user", content |-> message, metadata |-> EmptyDict]>>,
   session_id |-> session_id,
   intent |-> "response",
   needs_clarification |-> FALSE,
   clarification_questions |-> <<>>,
   search_results |-> <<>>,
   metadata |-> [session_id |-> session_id, processing_steps |-> <<"started">>,
                 force_web_search |-> force_web_search]]

\* the turn state process_message builds
InitialState(message, session_id, force_web_search) ==
  [messages |-> <<[role |-> "user", content |-> message, metadata |-> EmptyDict]>>,
   session_id |-> session_id,
   intent |-> "response",
   needs_clarification |-> FALSE,
   clarification_questions |-> <<>>,
   search_results |-> <<>>,
   metadata |-> [session_id |-> session_id, processing_steps |-> <<"started">>,
                 force_web_search |-> force_web_search]]

\* a normalization that forgets the web route
NormalizeIntentPdfOnly(intent) == IF intent = "pdf" THEN "pdf_query" ELSE intent

\* the intent names the caller sees
NormalizeIntent(intent) ==
  IF intent = "pdf" THEN "pdf_query" ELSE IF intent = "web" THEN "web_search" ELSE intent

\* the metadata of a successful return
ResultMetadata(result, session_id, intent) ==
  Update([agent_used |-> Get(result, "current_agent", "unknown"),
          session_id |-> session_id, intent |-> intent, success |-> TRUE],
         Get(result, "metadata", EmptyDict))

\* what process_message returns when the workflow returned result
SuccessResult(result, session_id) ==
  LET search_results == Get(result, "search_results", <<>>)
      response == Get(result, "response", NotSureText)
      shown == IF search_results # <<>> /\ response = NotSureText
                 THEN Text("Here's what I found:") ELSE response
      intent == NormalizeIntent(Get(result, "intent", "response"))
  IN  [intent |-> intent,
       message |-> shown,
       session_id |-> session_id,
       search_results |-> search_results,
       needs_clarification |-> Get(result, "needs_clarification", FALSE),
       clarification_questions |-> Get(result, "clarification_questions", <<>>),
       conversation_history |-> Get(result, "messages", <<>>),
       metadata |-> ResultMetadata(result, session_id, intent)]

\* what process_message returns when the workflow raised
ErrorResult(session_id) ==
  [intent |-> "error",
   message |-> ApologyText,
   session_id |-> session_id,
   search_results |-> <<>>,
   needs_clarification |-> FALSE,
   clarification_questions |-> <<>>,
   conversation_history |-> <<>>,
   metadata |-> [error |-> "workflow failure", session_id |-> session_id]]

\* a process_message without the except branch: the failure reaches the caller
OnWorkflowFailureUncaught(session_id) == [outcome |-> "raised", result |-> EmptyDict]

\* how process_message ends when the workflow raised: the except branch returns
OnWorkflowFailure(session_id) == [outcome |-> "returned", result |-> ErrorResult(session_id)]

(***************************************************************************)
(* A whole turn as a function of its arguments and of what the oracle and  *)
(* the retrieval capabilities answer in it.                                *)
(***************************************************************************)
\* the workflow: classify_intent, the routing, the retrieval nodes, response.
\* Each stage is computed once and handed to the next as a value.
Workflow(state0, answers) ==
  LET entered == { ClassifyEntry(state0) }
      checked == { IF e.done THEN e ELSE WebCheckStep(e.state, answers.web_check) :
                     e \in entered }
      classified ==
        { IF c.done THEN c.state
          ELSE ClassifyStep(c.state, Query(c.state), answers.classifier).state :
            c \in checked }
      after_pdf ==
        { IF route_after_classify(s) = "pdf_query"
            THEN route_after_pdf(node_func("pdf_query", s,
                                           PDFQueryAgent_process(s, answers.pdf)))
            ELSE [next |-> route_after_classify(s), state |-> s] :
            s \in classified }
      after_web ==
        { IF p.next = "web_search"
            THEN node_func("web_search", p.state,
                           WebSearchAgent_process(p.state, answers.web))
            ELSE p.state :
            p \in after_pdf }
      final == { node_func("response", w, ResponseAgent_process(w)) : w \in after_web }
  IN  CHOOSE f \in final : TRUE

\* AgentOrchestrator.process_message: how the call ends and what it returns
process_message(message, session_id, force_web_search, answers) ==
  IF answers.engine_fails
    THEN OnWorkflowFailure(session_id)
    ELSE [outcome |-> "returned",
          result |-> SuccessResult(
                       Workflow(InitialState(message, session_id, force_web_search), answers),
                       session_id)]

(***************************************************************************)
(* The conversation store (app/services/conversation/state.py) and the     *)
(* chat endpoint (app/api/endpoints/chat.py).  Conversation objects live   *)
(* in a heap: a caller that holds a conversation keeps the object, whatever *)
(* becomes of the entry of the store that named it.                        *)
(***************************************************************************)
\* most calls of the store's own operations in one behaviour of the store
MaxOps == 3

\* most such calls made while chat requests are in flight
MaxChatOps == 1

\* a session id that is None
None == "<None>"

\* the ids uuid.uuid4() hands out, in order
Uuids == <<"uuid-1", "uuid-2", "uuid-3", "uuid-4", "uuid-5", "uuid-6">>

\* session ids a caller passes
SessionIds == Sessions \cup {None}

\* Message.__init__ and the metadata.update of add_message
Message(role, content, metadata) == [role |-> role, content |-> content, metadata |-> metadata]

\* Conversation.__init__
Conversation(session_id) ==
  [session_id |-> session_id,
   messages |-> <<>>,
   metadata |-> EmptyDict,
   context |-> [last_intent |-> None, last_entities |-> EmptyDict, conversation_topics |-> <<>>]]

\* an add_message that puts the new message first
add_message_Prepends(conversation, role, content, metadata) ==
  [conversation EXCEPT !.messages = <<Message(role, content, metadata)>> \o @]

\* Conversation.add_message, on the conversation object
add_message(conversation, role, content, metadata) ==
  [conversation EXCEPT !.messages = Append(@, Message(role, content, metadata))]

\* Conversation.clear
clear(conversation) == [conversation EXCEPT !.messages = <<>>]

\* Message.to_dict, without the id and the timestamp
to_dict(msg) == [role |-> msg.role, content |-> msg.content, metadata |-> msg.metadata]

\* Conversation.get_messages(limit); limit = 0 stands for no limit
get_messages(conversation, limit) ==
  LET messages == conversation.messages
      from == IF limit > 0 /\ limit < Len(messages) THEN Len(messages) - limit + 1 ELSE 1
  IN  [i \in 1..(Len(messages) - from + 1) |-> to_dict(messages[from + i - 1])]

\* the extend of update_context: the topics not yet known, in order, once each
RECURSIVE ExtendTopics(_, _)
ExtendTopics(known, topics) ==
  IF topics = <<>> THEN known
  ELSE IF \E i \in 1..Len(known) : known[i] = Head(topics)
    THEN ExtendTopics(known, Tail(topics))
  ELSE ExtendTopics(Append(known, Head(topics)), Tail(topics))

\* Conversation.update_context; None, {} and [] are the arguments left out
update_context(conversation, intent, entities, topics) ==
  LET c == conversation.context
      c1 == IF intent # None /\ intent # "" THEN [c EXCEPT !.last_intent = intent] ELSE c
      c2 == IF entities # EmptyDict
              THEN [c1 EXCEPT !.last_entities = Update(@, entities)] ELSE c1
      c3 == IF topics # <<>>
              THEN [c2 EXCEPT !.conversation_topics = ExtendTopics(@, topics)] ELSE c2
  IN  [conversation EXCEPT !.context = c3]

\* Conversation.get_context
get_context(conversation) == conversation.context

\* the store: the heap of conversation objects, ConversationManager.sessions
\* (session id to object) and the number of uuids handed out
EmptyStore == [heap |-> <<>>, sessions |-> EmptyDict, uuids |-> 0]

\* a session id that is None or empty
Falsy(session_id) == session_id = None \/ session_id = ""

\* ConversationManager.create_conversation: the store it leaves, the object
\* it returns (0 when it raises)
create_conversation(store, session_id) ==
  IF ~ Falsy(session_id) /\ session_id \in DOMAIN store.sessions
    THEN [store |-> store, returned |-> 0, raised |-> TRUE]
  ELSE
    LET fresh == Falsy(session_id)
        id == IF fresh THEN Uuids[store.uuids + 1] ELSE session_id
        obj == Len(store.heap) + 1
    IN  [store |-> [heap |-> Append(store.heap, Conversation(id)),
                    sessions |-> Put(store.sessions, id, obj),
                    uuids |-> IF fresh THEN store.uuids + 1 ELSE store.uuids],
         returned |-> obj, raised |-> FALSE]

\* a get_conversation that hands every caller the first conversation made
get_conversation_Shared(store, session_id) ==
  IF store.heap = <<>> THEN create_conversation(store, session_id)
  ELSE [store |-> store, returned |-> 1, raised |-> FALSE]

\* ConversationManager.get_conversation
get_conversation(store, session_id) ==
  IF Falsy(session_id) \/ session_id \notin DOMAIN store.sessions
    THEN create_conversation(store, session_id)
    ELSE [store |-> store, returned |-> store.sessions[session_id], raised |-> FALSE]

\* ConversationManager.clear_conversation
clear_conversation(store, session_id) ==
  IF session_id \in DOMAIN store.sessions
    THEN [store |-> [store EXCEPT !.heap[store.sessions[session_id]] = clear(@)],
          returned |-> TRUE, raised |-> FALSE]
    ELSE [store |-> store, returned |-> FALSE, raised |-> FALSE]

\* del self.sessions[session_id]
Del(d, k) == [x \in DOMAIN d \ {k} |-> d[x]]

\* an end_conversation that forgets to remove the session
end_conversation_Keeps(store, session_id) ==
  [store |-> store, returned |-> session_id \in DOMAIN store.sessions, raised |-> FALSE]

\* ConversationManager.end_conversation
end_conversation(store, session_id) ==
  IF session_id \in DOMAIN store.sessions
    THEN [store |-> [store EXCEPT !.sessions = Del(@, session_id)],
          returned |-> TRUE, raised |-> FALSE]
    ELSE [store |-> store, returned |-> FALSE, raised |-> FALSE]

(***************************************************************************)
(* The chat endpoint.                                                      *)
(***************************************************************************)
\* the requests in flight
Requests == {"r1", "r2"}

\* ChatRequest values
HiOnS1 == [message |-> w_hi, session_id |-> "s1", force_web_search |-> FALSE,
           metadata |-> EmptyDict]
FollowUpOnS1 == [message |-> WhatAboutHim, session_id |-> "s1", force_web_search |-> TRUE,
                 metadata |-> [topic |-> "papers"]]
FollowUpOnS2 == [message |-> WhatAboutHim, session_id |-> "s2", force_web_search |-> FALSE,
                 metadata |-> EmptyDict]
RoleKeyOnS2 == [message |-> w_hi, session_id |-> "s2", force_web_search |-> FALSE,
                metadata |-> [role |-> "system"]]
HiOnNone == [message |-> w_hi, session_id |-> None, force_web_search |-> FALSE,
             metadata |-> EmptyDict]

\* the requests each client sends
ChatRequests ==
  [r \in Requests |->
     IF r = "r1" THEN {HiOnS1, RoleKeyOnS2, HiOnNone} ELSE {FollowUpOnS1, FollowUpOnS2}]

\* what the oracle and the retrieval capabilities answer during a chat turn
NegativeCheck == [kind |-> "dict", body |-> [is_web_search |-> FALSE, confidence |-> 90]]
Labelled(l) == [kind |-> "dict", body |-> [intent |-> l, confidence |-> 70, reasoning |-> "r"]]
NoHits == [raised |-> FALSE, hits |-> <<>>]
OneHit == [raised |-> FALSE, hits |-> <<PdfHit(1)>>]
OneWebHit == [raised |-> FALSE, hits |-> <<WebHit(1)>>]

ChatAnswers ==
  { [web_check |-> NegativeCheck, classifier |-> Labelled("greeting"), pdf |-> NoHits,
     web |-> NoHits, engine_fails |-> FALSE],
    [web_check |-> NegativeCheck, classifier |-> Labelled("pdf_query"), pdf |-> OneHit,
     web |-> NoHits, engine_fails |-> FALSE],
    [web_check |-> NegativeCheck, classifier |-> Labelled("follow_up"), pdf |-> NoHits,
     web |-> OneWebHit, engine_fails |-> FALSE],
    [web_check |-> NegativeCheck, classifier |-> Labelled("pdf_query"), pdf |-> NoHits,
     web |-> NoHits, engine_fails |-> TRUE] }

\* the keyword parameters of Conversation.add_message: a metadata key of one
\* of these names makes the call raise TypeError
AddMessageParameters == {"role", "content"}

\* _format_conversation_history
_format_conversation_history(messages) ==
  [i \in 1..Len(messages) |->
     Update([role |-> messages[i].role, content |-> messages[i].content],
            messages[i].metadata)]

ChatApology == Text("I encountered an error processing your request. Please try again.")
ChatSorry == Text("I'm sorry, I encountered an error processing your request.")

\* _create_error_response
_create_error_response(request_id, chat_request, error) ==
  [intent |-> "error",
   message |-> ChatApology,
   session_id |-> chat_request.session_id,
   clarification_questions |-> <<>>,
   metadata |-> [request_id |-> request_id, error |-> error, success |-> FALSE]]

\* the metadata stored with the user message (chat.py 127-133)
UserMetadata(chat_request) ==
  IF chat_request.force_web_search
    THEN Put(chat_request.metadata, "force_web_search", TRUE)
    ELSE chat_request.metadata

\* _process_chat_request up to the await of the agent workflow: the store and
\* the request it leaves.  When storing the user message raises, the except
\* branch answers and the request is over.
ChatBegin(store, request_id, chat_request) ==
  LET got == get_conversation(store, chat_request.session_id)
      obj == got.returned
      metadata == UserMetadata(chat_request)
  IN  IF DOMAIN metadata \cap AddMessageParameters # {}
        THEN LET error_response ==
                   _create_error_response(request_id, chat_request, "TypeError")
                 heap == [got.store.heap EXCEPT ![obj] =
                            add_message(@, "assistant", error_response.message,
                                        [error |-> "TypeError", success |-> FALSE])]
             IN  [store |-> [got.store EXCEPT !.heap = heap],
                  request |-> [pc |-> "done", chat_request |-> chat_request,
                               conversation |-> obj,
                               response |-> Put(error_response, "conversation_history",
                                  _format_conversation_history(
                                    get_messages(heap[obj], 0)))]]
        ELSE [store |-> [got.store EXCEPT !.heap[obj] =
                           add_message(@, "user", chat_request.message, metadata)],
              request |-> [pc |-> "awaiting", chat_request |-> chat_request,
                           conversation |-> obj, response |-> EmptyDict]]

\* _process_with_agent and the rest of _process_chat_request, from the end of
\* the process_message call on
ChatEnd(store, request_id, request, call) ==
  LET chat_request == request.chat_request
      obj == request.conversation
  IN  IF call.outcome # "returned"
        THEN \* _process_with_agent caught the exception: success is False
             LET heap == [store.heap EXCEPT ![obj] =
                            add_message(@, "assistant", ChatSorry,
                                        [error |-> "agent failure", success |-> FALSE])]
             IN  [store |-> [store EXCEPT !.heap = heap],
                  request |-> [request EXCEPT !.pc = "done",
                                 !.response = _create_error_response(request_id, chat_request,
                                                                     "agent failure")]]
        ELSE
          LET result == call.result
              response_message == Get(result, "message", NotSureText)
              assistant_metadata == Get(result, "metadata", EmptyDict)
              heap == [store.heap EXCEPT ![obj] =
                         add_message(@, "assistant", response_message, assistant_metadata)]
              intent == Get(result, "intent", "response")
              response_data ==
                [intent |-> intent,
                 message |-> response_message,
                 session_id |-> chat_request.session_id,
                 search_results |-> Get(result, "search_results", <<>>),
                 conversation_history |->
                   _format_conversation_history(get_messages(heap[obj], 0)),
                 metadata |-> Update([request_id |-> request_id,
                                      session_id |-> chat_request.session_id,
                                      intent |-> intent, success |-> TRUE],
                                     Get(result, "metadata", EmptyDict))]
          IN  [store |-> [store EXCEPT !.heap = heap],
               request |-> [request EXCEPT !.pc = "done", !.response = response_data]]

(***************************************************************************)
(* State of a turn.                                                        *)
(***************************************************************************)
VARIABLES
  pc,               \* where the turn is: idle, a node (or an await inside it), END, done
  args,             \* the arguments of the process_message call
  state,            \* the turn state passed from node to node
  result,           \* what process_message returned
  outcome,          \* pending, returned or raised
  trace,            \* the nodes executed in this turn, in order
  llm_calls,        \* calls of llm.ainvoke (explicit-web-search check)
  classifier_calls, \* calls of intent_classifier.ainvoke
  detector_calls,   \* calls of _detect_ambiguity
  classification,   \* the five-way classifier's answer in this turn
  pdf_returned,     \* what search_similar did in this turn
  web_returned,     \* what the web search did in this turn
  caught            \* the exception process_message caught, "" when none

turnVars == <<pc, args, state, result, outcome, trace, llm_calls, classifier_calls,
              detector_calls, classification, pdf_returned, web_returned, caught>>

(***************************************************************************)
(* State of the store and of the chat endpoint.                            *)
(***************************************************************************)
VARIABLES
  store,      \* conversation_manager: heap of conversations, sessions, uuids used
  chat,       \* the chat requests: where each is, what it holds, what it answered
  ops,        \* calls of the store's operations made directly by the caller
  last_call   \* the latest such call: operation, arguments, what it returned

chatVars == <<store, chat, ops, last_call>>

IdleRequest == [pc |-> "idle", chat_request |-> EmptyDict, conversation |-> 0,
                response |-> EmptyDict]

NoCall == [op |-> "", session_id |-> None, object |-> 0, returned |-> FALSE, raised |-> FALSE]

ChatInit ==
  /\ store = EmptyStore
  /\ chat = [r \in Requests |-> IdleRequest]
  /\ ops = 0
  /\ last_call = NoCall

vars == <<turnVars, chatVars>>

NotCalled == [called |-> FALSE, raised |-> FALSE, hits |-> <<>>, query |-> <<>>]

Init ==
  /\ pc = "idle"
  /\ args = EmptyDict
  /\ state = EmptyDict
  /\ result = EmptyDict
  /\ outcome = "pending"
  /\ trace = <<>>
  /\ llm_calls = 0
  /\ classifier_calls = 0
  /\ detector_calls = 0
  /\ classification = EmptyDict
  /\ pdf_returned = NotCalled
  /\ web_returned = NotCalled
  /\ caught = ""
  /\ ChatInit

\* process_message up to workflow.ainvoke(state)
ProcessMessage ==
  /\ pc = "idle"
  /\ \E message \in Messages, session_id \in Sessions, force_web_search \in BOOLEAN :
       /\ args' = [message |-> message, session_id |-> session_id,
                   force_web_search |-> force_web_search]
       /\ state' = InitialState(message, session_id, force_web_search)
  /\ pc' = "classify_intent"
  /\ UNCHANGED <<result, outcome, trace, llm_calls, classifier_calls, detector_calls,
                 classification, pdf_returned, web_returned, caught>>
  /\ UNCHANGED chatVars

\* the classify_intent node up to the explicit-web-search check; when the
\* node returns here, the routing after it
ClassifyIntentNode ==
  /\ pc = "classify_intent"
  /\ LET r == ClassifyEntry(state)
     IN  /\ state' = r.state
         /\ pc' = IF r.done THEN route_after_classify(r.state) ELSE "web_search_check"
  /\ trace' = Append(trace, "classify_intent")
  /\ UNCHANGED <<args, result, outcome, llm_calls, classifier_calls, detector_calls,
                 classification, pdf_returned, web_returned, caught>>
  /\ UNCHANGED chatVars

\* the classify_intent node from the answer of llm.ainvoke to the call of the
\* five-way classifier
WebSearchCheck ==
  /\ pc = "web_search_check"
  /\ \E webAns \in WebCheckAnswers :
       LET r == WebCheckStep(state, webAns)
       IN  /\ state' = r.state
           /\ pc' = IF r.done THEN route_after_classify(r.state) ELSE "intent_classifier"
  /\ llm_calls' = llm_calls + 1
  /\ UNCHANGED <<args, result, outcome, trace, classifier_calls, detector_calls,
                 classification, pdf_returned, web_returned, caught>>
  /\ UNCHANGED chatVars

\* the classify_intent node from the answer of intent_classifier.ainvoke to
\* its return, and the routing after it
IntentClassification ==
  /\ pc = "intent_classifier"
  /\ \E clsAns \in ClassifierAnswers :
       LET r == ClassifyStep(state, Query(state), clsAns)
       IN  /\ state' = r.state
           /\ detector_calls' = detector_calls + (IF r.detector THEN 1 ELSE 0)
           /\ classification' = r.classification
           /\ pc' = route_after_classify(r.state)
  /\ classifier_calls' = classifier_calls + 1
  /\ UNCHANGED <<args, result, outcome, trace, llm_calls, pdf_returned, web_returned, caught>>
  /\ UNCHANGED chatVars

\* the pdf_query node and the routing after it
PdfQueryNode ==
  /\ pc = "pdf_query"
  /\ \E o \in PdfOutcomes :
       LET r == route_after_pdf(node_func("pdf_query", state, PDFQueryAgent_process(state, o)))
       IN  /\ state' = r.state
           /\ pc' = r.next
           /\ pdf_returned' = [called |-> TRUE, raised |-> o.raised, hits |-> o.hits,
                               query |-> AgentQuery(state)]
  /\ trace' = Append(trace, "pdf_query")
  /\ UNCHANGED <<args, result, outcome, llm_calls, classifier_calls, detector_calls,
                 classification, web_returned, caught>>
  /\ UNCHANGED chatVars

\* the web_search node; its edge leads to response
WebSearchNode ==
  /\ pc = "web_search"
  /\ \E o \in WebOutcomes :
       /\ state' = node_func("web_search", state, WebSearchAgent_process(state, o))
       /\ web_returned' = [called |-> TRUE, raised |-> o.raised, hits |-> o.hits,
                           query |-> AgentQuery(state)]
  /\ pc' = "response"
  /\ trace' = Append(trace, "web_search")
  /\ UNCHANGED <<args, result, outcome, llm_calls, classifier_calls, detector_calls,
                 classification, pdf_returned, caught>>
  /\ UNCHANGED chatVars

\* the response node; its edge leads to END
ResponseNode ==
  /\ pc = "response"
  /\ state' = node_func("response", state, ResponseAgent_process(state))
  /\ pc' = "END"
  /\ trace' = Append(trace, "response")
  /\ UNCHANGED <<args, result, outcome, llm_calls, classifier_calls, detector_calls,
                 classification, pdf_returned, web_returned, caught>>
  /\ UNCHANGED chatVars

\* process_message after workflow.ainvoke returned
Return ==
  /\ pc = "END"
  /\ result' = SuccessResult(state, args.session_id)
  /\ outcome' = "returned"
  /\ pc' = "done"
  /\ UNCHANGED <<args, state, trace, llm_calls, classifier_calls, detector_calls,
                 classification, pdf_returned, web_returned, caught>>
  /\ UNCHANGED chatVars

\* workflow.ainvoke raises (a failure of the graph engine under a node) and
\* process_message handles it
WorkflowRaises ==
  /\ pc \in {"classify_intent", "web_search_check", "intent_classifier", "pdf_query",
            "web_search", "response"}
  /\ result' = OnWorkflowFailure(args.session_id).result
  /\ outcome' = OnWorkflowFailure(args.session_id).outcome
  /\ caught' = "workflow failure"
  /\ pc' = "done"
  /\ UNCHANGED <<args, state, trace, llm_calls, classifier_calls, detector_calls,
                 classification, pdf_returned, web_returned>>
  /\ UNCHANGED chatVars

Next ==
  \/ ProcessMessage
  \/ ClassifyIntentNode
  \/ WebSearchCheck
  \/ IntentClassification
  \/ PdfQueryNode
  \/ WebSearchNode
  \/ ResponseNode
  \/ Return
  \/ WorkflowRaises

Spec == Init /\ [][Next]_vars

(***************************************************************************)
(* The store's operations called by the caller, and the chat requests.     *)
(***************************************************************************)
\* session ids a caller can name: the ones it chose and the ones it was given
KnownSessionIds == SessionIds \cup DOMAIN store.sessions

\* conversation_manager.get_conversation(session_id)
GetConversation ==
  /\ ops < MaxOps
  /\ \E session_id \in KnownSessionIds :
       LET r == get_conversation(store, session_id)
       IN  /\ store' = r.store
           /\ last_call' = [op |-> "get_conversation", session_id |-> session_id,
                            object |-> r.returned, returned |-> FALSE, raised |-> r.raised]
  /\ ops' = ops + 1
  /\ UNCHANGED <<chat, turnVars>>

\* conversation_manager.create_conversation(session_id)
CreateConversation ==
  /\ ops < MaxOps
  /\ \E session_id \in KnownSessionIds :
       LET r == create_conversation(store, session_id)
       IN  /\ store' = r.store
           /\ last_call' = [op |-> "create_conversation", session_id |-> session_id,
                            object |-> r.returned, returned |-> FALSE, raised |-> r.raised]
  /\ ops' = ops + 1
  /\ UNCHANGED <<chat, turnVars>>

\* conversation_manager.clear_conversation(session_id), as the clear_session
\* endpoint calls it
ClearConversation ==
  /\ ops < MaxOps
  /\ \E session_id \in KnownSessionIds :
       LET r == clear_conversation(store, session_id)
       IN  /\ store' = r.store
           /\ last_call' = [op |-> "clear_conversation", session_id |-> session_id,
                            object |-> 0, returned |-> r.returned, raised |-> r.raised]
  /\ ops' = ops + 1
  /\ UNCHANGED <<chat, turnVars>>

\* conversation_manager.end_conversation(session_id)
EndConversation ==
  /\ ops < MaxOps
  /\ \E session_id \in KnownSessionIds :
       LET r == end_conversation(store, session_id)
       IN  /\ store' = r.store
           /\ last_call' = [op |-> "end_conversation", session_id |-> session_id,
                            object |-> 0, returned |-> r.returned, raised |-> r.raised]
  /\ ops' = ops + 1
  /\ UNCHANGED <<chat, turnVars>>

\* messages a caller adds to a conversation it holds
AddedMessages ==
  { [role |-> "user", content |-> w_ok, metadata |-> EmptyDict],
    [role |-> "assistant", content |-> FoundText(<<FormatPdf(1, PdfHit(1))>>),
     metadata |-> [search_results |-> <<PdfHit(1)>>]] }

\* conversation.add_message(role, content, **metadata) on a conversation the
\* caller holds
AddMessage ==
  /\ ops < MaxOps
  /\ \E obj \in 1..Len(store.heap), m \in AddedMessages :
       /\ store' = [store EXCEPT !.heap[obj] = add_message(@, m.role, m.content, m.metadata)]
       /\ last_call' = [op |-> "add_message", session_id |-> store.heap[obj].session_id,
                        object |-> obj, returned |-> FALSE, raised |-> FALSE]
  /\ ops' = ops + 1
  /\ UNCHANGED <<chat, turnVars>>

\* arguments of update_context
ContextUpdates ==
  { [intent |-> "pdf_query", entities |-> EmptyDict, topics |-> <<>>],
    [intent |-> None, entities |-> [author |-> "zhang"], topics |-> <<"nlp", "nlp">>] }

\* conversation.update_context(intent, entities, topics)
UpdateContext ==
  /\ ops < MaxOps
  /\ \E obj \in 1..Len(store.heap), u \in ContextUpdates :
       /\ store' = [store EXCEPT !.heap[obj] = update_context(@, u.intent, u.entities, u.topics)]
       /\ last_call' = [op |-> "update_context", session_id |-> store.heap[obj].session_id,
                        object |-> obj, returned |-> FALSE, raised |-> FALSE]
  /\ ops' = ops + 1
  /\ UNCHANGED <<chat, turnVars>>

\* conversation.get_messages(limit) and conversation.get_context()
ReadConversation ==
  /\ ops < MaxOps
  /\ \E obj \in 1..Len(store.heap), op \in {"get_messages", "get_context"} :
       last_call' = [op |-> op, session_id |-> store.heap[obj].session_id,
                     object |-> obj, returned |-> FALSE, raised |-> FALSE]
  /\ ops' = ops + 1
  /\ UNCHANGED <<store, chat, turnVars>>

\* a chat request arrives: _process_chat_request up to its await
ChatRequestBegins ==
  \E r \in Requests :
    \E chat_request \in ChatRequests[r] :
      /\ chat[r].pc = "idle"
      /\ \E b \in { ChatBegin(store, r, chat_request) } :
           /\ store' = b.store
           /\ chat' = [chat EXCEPT ![r] = b.request]
      /\ UNCHANGED <<ops, last_call, turnVars>>

\* process_message returns to a waiting chat request, which stores the reply
\* and answers
ChatRequestEnds ==
  \E r \in Requests, answers \in ChatAnswers :
    /\ chat[r].pc = "awaiting"
    /\ \E call \in { process_message(chat[r].chat_request.message,
                                       chat[r].chat_request.session_id,
                                       chat[r].chat_request.force_web_search, answers) } :
         \E e \in { ChatEnd(store, r, chat[r], call) } :
           /\ store' = e.store
           /\ chat' = [chat EXCEPT ![r] = e.request]
    /\ UNCHANGED <<ops, last_call, turnVars>>

\* the store on its own: a caller uses its operations
StoreNext ==
  \/ GetConversation
  \/ CreateConversation
  \/ ClearConversation
  \/ EndConversation
  \/ AddMessage
  \/ UpdateContext
  \/ ReadConversation

StoreSpec == Init /\ [][StoreNext]_vars

\* a caller that sends a chat request only when no other is in flight
SerialRequestBegins ==
  /\ \A q \in Requests : chat[q].pc # "awaiting"
  /\ ChatRequestBegins

SerialNext ==
  \/ SerialRequestBegins
  \/ ChatRequestEnds

SerialSpec == Init /\ [][SerialNext]_vars

(***************************************************************************)
(* The normalization of the turn state, applied to states as a caller may  *)
(* hand them to the classify node.                                         *)
(***************************************************************************)
MaxNormalizations == 2

\* values of the fields a turn state may or may not have
OptionalFields ==
  [messages |-> <<[role |-> "user", content |-> w_ok, metadata |-> EmptyDict]>>,
   intent |-> "pdf",
   needs_clarification |-> TRUE,
   clarification_questions |-> <<RephraseQuestion>>,
   search_results |-> <<PdfHit(1)>>]

\* values of state["metadata"]: dicts, None, a string
MetadataChoices ==
  << EmptyDict,
     [session_id |-> "s1", processing_steps |-> <<"started">>],
     [intent_classification |-> FallbackClassification],
     PyNone,
     PyStr >>

\* a turn state with the fields of present and the metadata chosen (0: none)
NormInput(present, choice) ==
  LET base == [k \in present |-> OptionalFields[k]]
  IN  IF choice = 0 THEN base ELSE Put(base, "metadata", MetadataChoices[choice])

NormInputs ==
  { NormInput(present, choice) :
      present \in SUBSET DOMAIN OptionalFields, choice \in 0..Len(MetadataChoices) }
  \cup {PyNone}

NormInit ==
  /\ pc = "unnormalized"
  /\ state \in NormInputs
  /\ args = EmptyDict
  /\ result = EmptyDict
  /\ outcome = "pending"
  /\ trace = <<>>
  /\ llm_calls = 0
  /\ classifier_calls = 0
  /\ detector_calls = 0
  /\ classification = EmptyDict
  /\ pdf_returned = NotCalled
  /\ web_returned = NotCalled
  /\ caught = ""
  /\ ChatInit

\* state = self._initialize_intent_state(state)
Normalize ==
  /\ pc \in {"unnormalized", "normalized"}
  /\ Len(trace) < MaxNormalizations
  /\ state' = _initialize_intent_state(state)
  /\ pc' = "normalized"
  /\ trace' = Append(trace, "_initialize_intent_state")
  /\ UNCHANGED <<args, result, outcome, llm_calls, classifier_calls, detector_calls,
                 classification, pdf_returned, web_returned, caught>>
  /\ UNCHANGED chatVars

NormNext == Normalize

NormSpec == NormInit /\ [][NormNext]_vars

\* store operations that arrive while chat requests are in flight
ClearDuringChat == ops < MaxChatOps /\ ClearConversation
EndDuringChat == ops < MaxChatOps /\ EndConversation
AddDuringChat == ops < MaxChatOps /\ AddMessage

\* the chat endpoint: requests of two clients and store operations, interleaved
ChatNext ==
  \/ ChatRequestBegins
  \/ ChatRequestEnds
  \/ ClearDuringChat
  \/ EndDuringChat
  \/ AddDuringChat

ChatSpec == Init /\ [][ChatNext]_vars

(***************************************************************************)
(* Properties.                                                             *)
(***************************************************************************)
\* the turn went through the workflow to its end and process_message returned
Completed == outcome = "returned" /\ caught = ""

\* the label the five-way classifier gave in this turn, "" when it gave none
Label == Get(classification, "intent", "")

\* the classification metadata of the turn state
IntentClassificationOf(s) == Get(Get(s, "metadata", EmptyDict), "intent_classification", EmptyDict)

\* document retrieval was called and returned an empty list
PdfReturnedEmpty == pdf_returned.called /\ ~ pdf_returned.raised /\ pdf_returned.hits = <<>>

ClarificationHeads ==
  { BriefClarification, QuantityClarification, QualityClarification,
    ComparisonClarification, RequestClarification }

\* C1: when the document retrieval of the pdf_query node returns an empty
\* list, the node executed next is web_search, never response, and the
\* classification metadata is the fallback record: source pdf_search_fallback,
\* confidence 0.8, detected intent web_search.
C1_FallbackLaw ==
  PdfReturnedEmpty =>
    /\ \A i \in 1..Len(trace) :
         trace[i] = "pdf_query" =>
           /\ i < Len(trace) => trace[i + 1] = "web_search"
           /\ (i = Len(trace) /\ outcome = "pending") => pc = "web_search"
    /\ pc = "web_search" => IntentClassificationOf(state) = FallbackClassification
    /\ "intent_classification" \in DOMAIN state["metadata"] =>
         /\ IntentClassificationOf(state)["source"] = "pdf_search_fallback"
         /\ IntentClassificationOf(state)["confidence"] = 80
         /\ IntentClassificationOf(state)["detected_intent"] = "web_search"

\* the web_search node is about to run because the documents gave nothing
C1_Witness == PdfReturnedEmpty /\ pc = "web_search"

\* C2: a turn whose reply is the generic empty-result message has executed
\* the web_search node.
C2_NoEmptyReplyWithoutWeb ==
  (outcome = "returned" /\ result["message"] = NotFoundText) =>
    \E i \in 1..Len(trace) : trace[i] = "web_search"

\* C3: process_message never raises: every turn that ends has returned a
\* result dictionary, and when a failure escaped the workflow the result has
\* intent error, the apology and no search results.
C3_NeverRaises ==
  /\ outcome # "raised"
  /\ pc = "done" =>
       /\ outcome = "returned"
       /\ DOMAIN result = {"intent", "message", "session_id", "search_results",
                           "needs_clarification", "clarification_questions",
                           "conversation_history", "metadata"}
       /\ result["session_id"] = args["session_id"]
  /\ caught # "" =>
       /\ pc = "done"
       /\ result["intent"] = "error"
       /\ result["message"] = ApologyText
       /\ result["search_results"] = <<>>

\* a failure escaped the workflow and the turn has ended
C3_Witness == pc = "done" /\ caught # ""

\* C4: a turn with force_web_search = true calls neither the explicit check
\* nor the classifier nor the ambiguity detector, and leaves classify_intent
\* for web_search with the forced classification (confidence 1.0).
C4_ForcedTurn ==
  (pc # "idle" /\ args["force_web_search"]) =>
    /\ llm_calls = 0
    /\ classifier_calls = 0
    /\ detector_calls = 0
    /\ (trace = <<"classify_intent">> /\ outcome = "pending"
          /\ pc \notin {"web_search_check", "intent_classifier"}) =>
         /\ pc = "web_search"
         /\ IntentClassificationOf(state) = ForcedClassification

\* C5: the metadata of every returned result names the agent, the session,
\* the intent, the success flag and the processing steps.
C5_MetadataKeys ==
  outcome = "returned" =>
    {"agent_used", "session_id", "intent", "success", "processing_steps"}
      \subseteq DOMAIN result["metadata"]

\* C6: the Scenario C utterance, labelled pdf_query, reaches document
\* retrieval, and with 2 hits the turn ends with intent pdf_query and the two
\* entries "1. From" and "2. From".
C6_ScenarioC ==
  (Completed /\ args["message"] = ScenarioC /\ Label = "pdf_query") =>
    /\ pdf_returned.called
    /\ (~ pdf_returned.raised /\ pdf_returned.hits = <<PdfHit(1), PdfHit(2)>>) =>
         /\ result["intent"] = "pdf_query"
         /\ Len(result["message"].entries) = 2
         /\ \A i \in 1..2 :
              /\ result["message"].entries[i].n = i
              /\ "From" \in DOMAIN result["message"].entries[i]

\* C7: a turn classified pdf_query whose document retrieval returns nothing
\* and whose web retrieval returns 1 hit ends with intent web_search and
\* exactly 1 entry in the web format.
C7_ScenarioD ==
  (Completed /\ Label = "pdf_query" /\ PdfReturnedEmpty
     /\ web_returned.called /\ ~ web_returned.raised /\ web_returned.hits = <<WebHit(1)>>) =>
    /\ result["intent"] = "web_search"
    /\ result["metadata"]["intent"] = "web_search"
    /\ result["message"].head = "Here's what I found:"
    /\ Len(result["message"].entries) = 1
    /\ DOMAIN result["message"].entries[1] = {"n", "title", "URL", "Snippet"}
    /\ result["message"].entries[1].n = 1

\* Scenario D has happened
C7_Witness ==
  /\ Completed /\ Label = "pdf_query" /\ PdfReturnedEmpty
  /\ web_returned.called /\ ~ web_returned.raised /\ web_returned.hits = <<WebHit(1)>>

\* C8: a turn the classifier labels greeting is not put to the ambiguity
\* detector and ends with intent greeting, the canned greeting and
\* needs_clarification = false.  Stated for the two greetings the claim
\* names, "hi" and "good morning".
C8_GreetingExempt ==
  (Completed /\ Label = "greeting" /\ args["message"] \in {w_hi, GoodMorning}) =>
    /\ Get(IntentClassificationOf(state), "source", "") # "ambiguity_detector"
    /\ Get(IntentClassificationOf(state), "detected_intent", "") = "greeting"
    /\ result["message"] = GreetingText
    /\ result["needs_clarification"] = FALSE

\* the utterance has at most 3 tokens and none of them is hi, hello or hey
BriefWithoutGreetingToken(message) ==
  LET tokens == split(strip(message))
  IN  /\ Len(tokens) <= 3
      /\ \A i \in 1..Len(tokens) : lower(tokens[i]) \notin GreetingTokens

\* C9: for an utterance of at most 3 tokens none of which is a greeting
\* token, the ambiguity detector answers ambiguous with the brief template.
C9_BriefIsAmbiguous ==
  (detector_calls > 0 /\ BriefWithoutGreetingToken(args["message"])) =>
    _detect_ambiguity(Query(state)) = <<TRUE, BriefClarification, BriefExample>>

\* C10: a turn the classifier labels follow_up is never put to the ambiguity
\* detector, and is routed on to retrieval instead of being answered with a
\* clarification.
C10_FollowUpExempt ==
  Label = "follow_up" =>
    /\ detector_calls = 0
    /\ Get(IntentClassificationOf(state), "source", "") # "ambiguity_detector"
    /\ "response" \in DOMAIN state => state["response"].head \notin ClarificationHeads
    /\ Len(trace) = 1 => pc \in {"pdf_query", "web_search", "done"}
    /\ Completed => result["message"].head \notin ClarificationHeads

\* a follow-up whose utterance the detector would have found ambiguous has
\* been answered
C10_Witness ==
  /\ Completed
  /\ Label = "follow_up"
  /\ _detect_ambiguity(strip(args["message"]))[1]

\* the fields of the turn state the formatter is answerable for
FormatterFields == {"response", "search_results", "needs_clarification", "clarification_questions"}

\* C11 (as claimed): whenever the formatter is entered with a non-empty
\* response it returns the turn state unchanged, and a response once set in a
\* turn is never replaced by any later stage.
C11_NeverOverwritten ==
  [][ /\ (pc = "response" /\ HasResponse(state)) =>
           ResponseAgent_process(state) = [raised |-> FALSE, state |-> state]
      /\ HasResponse(state) => Get(state', "response", Text("")) = state["response"]
    ]_vars

\* C11 (amended): whenever the formatter is entered with a non-empty response
\* it returns the turn state unchanged, and the response node leaves response,
\* search_results, needs_clarification and clarification_questions as on
\* entry; the only stage that replaces a response already set is the error
\* handler of the web_search node, entered after the pdf_query node failed.
C11_FormatterNoOp ==
  [][ /\ (pc = "response" /\ HasResponse(state)) =>
           /\ ResponseAgent_process(state) = [raised |-> FALSE, state |-> state]
           /\ pc' = "END" =>
                \A f \in FormatterFields :
                  /\ (f \in DOMAIN state) => (f \in DOMAIN state' /\ state'[f] = state[f])
      /\ (HasResponse(state) /\ Get(state', "response", Text("")) # state["response"]) =>
           /\ pc = "web_search"
           /\ state["response"] = NodeErrorText("pdf_query")
           /\ state'["response"] = NodeErrorText("web_search")
    ]_vars

\* the response node has run on a turn state whose response was already set
\* by the greeting branch or by the ambiguity check
C11_Witness ==
  /\ pc = "END"
  /\ trace = <<"classify_intent", "response">>
  /\ state["response"] = GreetingText \/ state["response"].head \in ClarificationHeads

\* the text of a hit the formatter renders: text of a document hit, snippet
\* of a web hit
RenderedSource(hit) ==
  IF "snippet" \in DOMAIN hit THEN hit["snippet"] ELSE hit["text"]

\* the rendered text of an entry of a reply
RenderedField(entry) ==
  IF "Snippet" \in DOMAIN entry THEN entry["Snippet"] ELSE entry["text"]

\* a text with every whitespace run collapsed to one space and none at its
\* ends, computed by halves: the two halves collapsed, joined through at most
\* one space
RECURSIVE CollapsedInner(_)
CollapsedInner(text) ==
  IF Len(text) = 0 THEN <<>>
  ELSE IF Len(text) = 1 THEN (IF text[1] \in Whitespace THEN <<" ">> ELSE text)
  ELSE LET half == Len(text) \div 2
           left == CollapsedInner(SubSeq(text, 1, half))
           right == CollapsedInner(SubSeq(text, half + 1, Len(text)))
       IN  IF left[Len(left)] = " " /\ right[1] = " " THEN left \o Tail(right)
           ELSE left \o right

Collapsed(text) ==
  LET inner == CollapsedInner(text)
      from == IF inner # <<>> /\ inner[1] = " " THEN 2 ELSE 1
      to == IF inner # <<>> /\ inner[Len(inner)] = " " THEN Len(inner) - 1 ELSE Len(inner)
  IN  SubSeq(inner, from, to)

\* C12: every rendered document text or web snippet is the collapsed text
\* when that has at most 200 characters, and otherwise its first 200
\* characters followed by "..." (203 characters).
C12_TruncationLaw ==
  (pc \in {"END", "done"} /\ HasResponse(state)
     /\ state["response"].head = "Here's what I found:") =>
    \A i \in 1..Len(state["response"].entries) :
      LET collapsed == Collapsed(RenderedSource(state["search_results"][i]))
          rendered == RenderedField(state["response"].entries[i])
      IN  IF Len(collapsed) > 200
            THEN /\ Len(rendered) = 203
                 /\ SubSeq(rendered, 1, 200) = SubSeq(collapsed, 1, 200)
                 /\ SubSeq(rendered, 201, 203) = <<".", ".", ".">>
            ELSE rendered = collapsed

\* a reply has been rendered with a text over the limit, a text exactly at
\* the limit and a text that is at the limit only once collapsed
C12_Witness ==
  /\ pc = "done" /\ Completed
  /\ result["search_results"] =
       <<PdfHitWith(1, OverLimitText), PdfHitWith(2, AtLimitText), PdfHitWith(3, PaddedAtLimitText)>>
  /\ Len(result["message"].entries) = 3
  /\ Len(result["message"].entries[1]["text"]) = 203
  /\ result["message"].entries[2]["text"] = AtLimitText
  /\ Len(PaddedAtLimitText) > 200
  /\ Len(result["message"].entries[3]["text"]) = 200

\* the follow-up question suggestions a turn state or a result carries
FollowUpQuestionsOf(d) == Get(d, "follow_up_questions", <<>>)

\* C13: every turn state leaving the formatter, and every successful result,
\* carries between 2 and 4 follow-up question suggestions.
C13_FollowUpQuestions ==
  /\ (pc = "END" /\ trace[Len(trace)] = "response") =>
       Len(FollowUpQuestionsOf(state)) \in 2..4
  /\ Completed => Len(FollowUpQuestionsOf(result)) \in 2..4

\* the formatter is entered with no response set, nothing to render and the
\* turn not flagged as a follow-up
NothingToRender(s) ==
  /\ ~ HasResponse(s)
  /\ Get(s, "search_results", <<>>) = <<>>
  /\ ~ Get(IntentClassificationOf(s), "is_follow_up", FALSE)

\* C14: when the formatter is entered with no response set and nothing to
\* render, the state it leaves has the generic could-not-find message,
\* needs_clarification = true and exactly the two standard prompts, and so
\* has the result of the turn.
C14_EmptyResultReply ==
  [][ (pc = "response" /\ NothingToRender(state)) =>
        /\ ResponseAgent_process(state).state["response"] = NotFoundText
        /\ pc' = "END" =>
             /\ state'["response"] = NotFoundText
             /\ state'["needs_clarification"] = TRUE
             /\ state'["clarification_questions"] =
                  << "Would you like me to search the web for this information?",
                     "Would you like to try a different query?" >>
        /\ pc' = "done" => caught' # ""
    ]_vars

\* both retrievals returned nothing and the formatter has answered
C14_Witness ==
  /\ pc = "END"
  /\ PdfReturnedEmpty
  /\ web_returned.called /\ ~ web_returned.raised /\ web_returned.hits = <<>>
  /\ state["response"] = NotFoundText
  /\ state["clarification_questions"] = NotFoundQuestions

\* the message list of a waiting turn's session ends with the turn's user
\* message, and the message before it is an assistant message that carries
\* search results in its metadata
AfterSearchResults(messages) ==
  /\ Len(messages) >= 2
  /\ messages[Len(messages)].role = "user"
  /\ messages[Len(messages) - 1].role = "assistant"
  /\ "search_results" \in DOMAIN messages[Len(messages) - 1].metadata

\* the classification metadata of a chat response
ClassificationOfResponse(response) ==
  Get(Get(response, "metadata", EmptyDict), "intent_classification", EmptyDict)

\* C15: a turn on a session whose last assistant message carried search
\* results in its metadata is resolved as a follow-up: the classification
\* metadata says follow_up and carries the is-follow-up flag, and the intent
\* of the turn is follow_up, whatever label the classifier gave.  Stated for
\* a turn that runs alone and completes through the workflow.
C15_FollowUpOverride ==
  [][ \A r \in Requests :
        (/\ chat[r].pc = "awaiting"
         /\ \A q \in Requests \ {r} : chat[q].pc # "awaiting"
         /\ chat'[r].pc = "done"
         /\ chat'[r].response["intent"] # "error"
         /\ AfterSearchResults(store.heap[chat[r].conversation].messages)) =>
          /\ chat'[r].response["intent"] = "follow_up"
          /\ Get(ClassificationOfResponse(chat'[r].response), "detected_intent", "") = "follow_up"
          /\ Get(ClassificationOfResponse(chat'[r].response), "is_follow_up", FALSE)
    ]_vars

\* the conversation stored under a session id
Stored(st, session_id) == st.heap[st.sessions[session_id]]

\* every session but this one is stored as before
OthersUnchanged(session_id) ==
  \A k \in DOMAIN store.sessions \ {session_id} :
    k \in DOMAIN store'.sessions /\ Stored(store', k) = Stored(store, k)

\* C16: get_conversation on an unknown id creates exactly one empty session
\* under that id and on a known id returns the stored session and changes
\* nothing; clear_conversation empties the messages, keeps the session under
\* its id and returns true (false, store unchanged, for an unknown id);
\* end_conversation removes the session and returns true (false for an
\* unknown id); no other operation removes a session.
C16_StoreLifecycle ==
  [][ ops' = ops + 1 =>
        LET op == last_call'.op
            id == last_call'.session_id
            known == id \in DOMAIN store.sessions
        IN  /\ (op = "get_conversation" /\ id # None /\ ~ known) =>
                 /\ DOMAIN store'.sessions = DOMAIN store.sessions \cup {id}
                 /\ Len(store'.heap) = Len(store.heap) + 1
                 /\ last_call'.object = store'.sessions[id]
                 /\ Stored(store', id).session_id = id
                 /\ Stored(store', id).messages = <<>>
                 /\ OthersUnchanged(id)
            /\ (op = "get_conversation" /\ known) =>
                 /\ store' = store
                 /\ last_call'.object = store.sessions[id]
            /\ (op = "clear_conversation" /\ known) =>
                 /\ last_call'.returned = TRUE
                 /\ DOMAIN store'.sessions = DOMAIN store.sessions
                 /\ store'.sessions[id] = store.sessions[id]
                 /\ Stored(store', id).session_id = id
                 /\ Stored(store', id).messages = <<>>
                 /\ OthersUnchanged(id)
            /\ (op = "clear_conversation" /\ ~ known) =>
                 /\ last_call'.returned = FALSE
                 /\ store' = store
            /\ (op = "end_conversation" /\ known) =>
                 /\ last_call'.returned = TRUE
                 /\ DOMAIN store'.sessions = DOMAIN store.sessions \ {id}
                 /\ OthersUnchanged(id)
            /\ (op = "end_conversation" /\ ~ known) =>
                 /\ last_call'.returned = FALSE
                 /\ store' = store
            /\ op # "end_conversation" => DOMAIN store.sessions \subseteq DOMAIN store'.sessions
    ]_vars

\* a session that was stored has been ended: the call returned true and the
\* id is no longer in the store
C16_Witness ==
  /\ last_call.op = "end_conversation"
  /\ last_call.returned
  /\ last_call.session_id \notin DOMAIN store.sessions
  /\ \E i \in 1..Len(store.heap) : store.heap[i].session_id = last_call.session_id

\* the session id the step is addressed to: the id of the store operation
\* called, or the id of the chat request that moved
Mover == CHOOSE r \in Requests : chat'[r] # chat[r]

Addressed ==
  IF ops' # ops THEN last_call'.session_id
  ELSE chat'[Mover].chat_request.session_id

\* the conversation a step may write to: one stored under the id the step is
\* addressed to, or, for a chat request without an id, the conversation the
\* request made for itself under a new uuid
MayWrite(obj) ==
  \/ store.heap[obj].session_id = Addressed
  \/ /\ Addressed = None
     /\ ops' = ops
     /\ chat[Mover].pc = "awaiting"
     /\ obj = chat[Mover].conversation
     /\ store.heap[obj].session_id \notin Sessions

\* the key the step may store under: the id it is addressed to, or the uuid
\* made for a request without an id
AddressedKeys ==
  IF Addressed = None THEN {Uuids[store.uuids + 1]} ELSE {Addressed}

\* the messages of a conversation stem from requests addressed to it: the
\* session id a reply carries in its metadata is the conversation's own (or
\* None, in a conversation made for a request without an id)
OwnMessagesOnly(conversation) ==
  \A i \in 1..Len(conversation.messages) :
    "session_id" \in DOMAIN conversation.messages[i].metadata =>
      \/ conversation.messages[i].metadata["session_id"] = conversation.session_id
      \/ /\ conversation.messages[i].metadata["session_id"] = None
         /\ conversation.session_id \notin Sessions

\* C17: under every interleaving of chat turns and store operations, a step
\* addressed to one session changes no other session: conversations of other
\* ids keep their messages and context, the store's entries for other ids
\* stay as they are, and every conversation holds only messages of requests
\* addressed to it.
C17_NoInterference ==
  [][ /\ \A obj \in 1..Len(store.heap) :
           store'.heap[obj] # store.heap[obj] => MayWrite(obj)
      /\ \A obj \in (Len(store.heap) + 1)..Len(store'.heap) :
           store'.heap[obj].session_id \in AddressedKeys
      /\ Len(store'.heap) >= Len(store.heap)
      /\ \A k \in (DOMAIN store.sessions \cup DOMAIN store'.sessions) \ AddressedKeys :
           /\ k \in DOMAIN store.sessions
           /\ k \in DOMAIN store'.sessions
           /\ store'.sessions[k] = store.sessions[k]
      /\ \A obj \in 1..Len(store'.heap) : OwnMessagesOnly(store'.heap[obj])
    ]_vars

\* two chat turns on two sessions have completed, with a store operation on
\* the first session in between, and the second session holds its two messages
C17_Witness ==
  /\ chat["r1"].pc = "done" /\ chat["r1"].chat_request.session_id = "s1"
  /\ chat["r2"].pc = "done" /\ chat["r2"].chat_request.session_id = "s2"
  /\ ops = 1 /\ last_call.session_id = "s1"
  /\ "s2" \in DOMAIN store.sessions
  /\ Len(Stored(store, "s2").messages) = 2

\* the agent called by the node of this step raised
AgentRaisedIn(agent_name) ==
  /\ pc = agent_name
  /\ pc' # "done"
  /\ CASE agent_name = "pdf_query" -> pdf_returned'.raised
       [] agent_name = "web_search" -> web_returned'.raised
       [] OTHER -> ResponseAgent_process(state).raised

ErrorMarker ==
  [pdf_query |-> "pdf_query_error", web_search |-> "web_search_error",
   response |-> "response_error"]

\* C18: when the agent of a node (pdf_query, web_search, response) raises,
\* the node returns and the workflow goes on: the turn state it yields has the
\* generic error message naming the agent as response, needs_clarification
\* true, exactly one clarification question, naming the agent, and the trail
\* of processing steps it had with "<agent>_error" appended.
C18_NodeCatches ==
  [][ \A agent_name \in {"pdf_query", "web_search", "response"} :
        AgentRaisedIn(agent_name) =>
          /\ pc' \in {"web_search", "response", "END"}
          /\ outcome' = "pending"
          /\ caught' = caught
          /\ state'["response"] =
               [head |-> "An error occurred while processing your request with",
                entries |-> <<>>, tail |-> agent_name]
          /\ state'["needs_clarification"] = TRUE
          /\ Len(state'["clarification_questions"]) = 1
          /\ state'["clarification_questions"][1] = NodeErrorQuestion(agent_name)
          /\ state'["metadata"]["processing_steps"] =
               Append(state["metadata"]["processing_steps"], ErrorMarker[agent_name])
    ]_vars

\* a turn in which the document search raised, then the web search raised,
\* has come to the end of the workflow
C18_Witness ==
  /\ pc = "END"
  /\ pdf_returned.called /\ pdf_returned.raised
  /\ web_returned.called /\ web_returned.raised
  /\ state["metadata"]["agent"] = "web_search"

\* a turn in which the formatter raised on a hit it cannot render
C18_FormatterWitness ==
  /\ pc = "END"
  /\ state["response"] = NodeErrorText("response")

\* the five-way classification of this step failed: the classifier raised,
\* answered text that is not JSON or not an object, or gave no intent
ClassificationFailedHere ==
  /\ pc = "intent_classifier"
  /\ classifier_calls' = classifier_calls + 1
  /\ "intent" \notin DOMAIN classification'

\* C19: when the five-way classification fails, the turn goes on (nothing
\* propagates) and the judgment recorded for the turn is the safe default:
\* intent clarification_needed, confidence 0, a reasoning that is not empty.
C19_SafeDefault ==
  [][ ClassificationFailedHere =>
        /\ pc' # "done"
        /\ caught' = caught
        /\ Get(IntentClassificationOf(state'), "detected_intent", "") = "clarification_needed"
        /\ Get(IntentClassificationOf(state'), "confidence", 100) = 0
        /\ Get(IntentClassificationOf(state'), "reasoning", "") # ""
    ]_vars

\* this step is the classify node resolving a turn the classifier labelled
\* follow_up, with a context text that is not empty
FollowUpResolvedHere ==
  /\ pc = "intent_classifier"
  /\ classifier_calls' = classifier_calls + 1
  /\ Get(classification', "intent", "") = "follow_up"
  /\ Get(classification', "context", <<>>) # <<>>

ContextHasSearchVerb == any_in({w_search, w_find, w_look_up}, lower(classification'["context"]))

UtteranceHasReferenceTerm ==
  any_in({w_he, w_she, w_it, w_they, w_that, w_this, w_the}, lower(Query(state)))

\* C20 as stated, for turns that do not ask to force a web search: a turn
\* classified follow_up with a context text routes to web_search exactly when
\* the context text contains a search verb, and to pdf_query otherwise,
\* whatever the words of the utterance.
C20_ContextAlone ==
  [][ (FollowUpResolvedHere /\ ~ args["force_web_search"]) =>
        /\ pc' \in {"web_search", "pdf_query"}
        /\ (pc' = "web_search") <=> ContextHasSearchVerb
    ]_vars

\* C20 amended: for a turn classified follow_up with a context text, the
\* classify node sets the working intent to web exactly when the utterance
\* contains one of he, she, it, they, that, this, the (as a substring, in any
\* case) or the context text contains a search verb, and to pdf otherwise; a
\* turn whose utterance has such a term gets the force_web_search flag.  The
\* turn is routed to web_search exactly when the working intent is web or
\* the force_web_search flag of the turn is set, and to pdf_query otherwise.
C20_UtteranceThenContext ==
  [][ FollowUpResolvedHere =>
        /\ state'["intent"] \in {"web", "pdf"}
        /\ (state'["intent"] = "web") <=> (UtteranceHasReferenceTerm \/ ContextHasSearchVerb)
        /\ UtteranceHasReferenceTerm => state'["metadata"]["force_web_search"] = TRUE
        /\ state'["metadata"]["original_query"] =
             classification'["context"] \o <<" ">> \o Query(state)
        /\ pc' \in {"web_search", "pdf_query"}
        /\ (pc' = "web_search") <=>
             (state'["intent"] = "web" \/ state'["metadata"]["force_web_search"] = TRUE)
        /\ ~ UtteranceHasReferenceTerm =>
             state'["metadata"]["force_web_search"] = args["force_web_search"]
    ]_vars

\* a follow-up without a reference term, on a context without a search verb,
\* has been routed to the documents
C20_Witness ==
  /\ pc = "pdf_query"
  /\ Get(classification, "intent", "") = "follow_up"
  /\ Get(classification, "context", <<>>) = CtxPaper
  /\ ~ any_in(ReferenceTerms, lower(Query(state)))
  /\ ~ args["force_web_search"]
  /\ state["intent"] = "pdf"

\* the query the classify node recorded for a follow-up with a context: the
\* context text, a space, the utterance
ModifiedQuery == classification["context"] \o <<" ">> \o strip(args["message"])

FollowUpWithContextTurn ==
  Label = "follow_up" /\ Get(classification, "context", <<>>) # <<>>

\* C21: in a follow-up turn with a context text, the query handed to the
\* document search and to the web search is the modified query (context text,
\* then the utterance), not the utterance alone; in every other turn it is the
\* utterance.
C21_RetrievalQuery ==
  /\ pdf_returned.called =>
       pdf_returned.query = IF FollowUpWithContextTurn THEN ModifiedQuery ELSE args["message"]
  /\ web_returned.called =>
       web_returned.query = IF FollowUpWithContextTurn THEN ModifiedQuery ELSE args["message"]

\* the explicit-web-search check of the turn was positive: the classify node
\* recorded its detection
ExplicitDetected(s) ==
  Get(IntentClassificationOf(s), "source", "") = "llm_web_search_detection"

\* C22: in a turn that is not forced, the explicit-web-search check is made
\* before any call of the five-way classifier or the ambiguity detector; a
\* positive check sends the turn to web_search, and the classifier and the
\* detector, which are called only from the step that follows a check that
\* was not positive, are never called; a check that raises or answers what
\* cannot be parsed leaves the turn running and hands it to the classifier.
C22_ExplicitCheckFirst ==
  [][ (pc # "idle" /\ ~ args["force_web_search"]) =>
        /\ (pc = "web_search_check" /\ llm_calls' = llm_calls + 1) =>
             /\ llm_calls = 0 /\ classifier_calls = 0 /\ detector_calls = 0
             /\ outcome' = "pending" /\ caught' = caught
             /\ pc' \in {"web_search", "intent_classifier"}
             /\ (pc' = "web_search") <=> ExplicitDetected(state')
             /\ ExplicitDetected(state') => state'["intent"] = "web"
        /\ pc' = "intent_classifier" => (pc = "web_search_check" /\ ~ ExplicitDetected(state'))
        /\ (classifier_calls' # classifier_calls \/ detector_calls' # detector_calls) =>
             (pc = "intent_classifier" /\ llm_calls = 1)
        /\ llm_calls' # llm_calls => pc = "web_search_check"
    ]_vars

\* a turn that is not forced, whose check was positive, is at web_search and
\* has called neither the classifier nor the detector
C22_Witness ==
  /\ pc = "web_search"
  /\ ~ args["force_web_search"]
  /\ ExplicitDetected(state)
  /\ llm_calls = 1 /\ classifier_calls = 0 /\ detector_calls = 0

\* the turn is not forced, its utterance is one the ambiguity detector finds
\* ambiguous, and the classifier has not labelled it follow_up
AmbiguousTurn ==
  /\ pc # "idle"
  /\ ~ args["force_web_search"]
  /\ _detect_ambiguity(strip(args["message"]))[1]
  /\ Label # "follow_up"

\* C23: in a turn that is not forced and not a follow-up, whose utterance the
\* ambiguity detector finds ambiguous, no call is made to the language model
\* (neither the explicit-web-search check nor the five-way classification)
\* and none to a retrieval.
C23_AmbiguityFirst ==
  AmbiguousTurn =>
    /\ llm_calls = 0
    /\ classifier_calls = 0
    /\ ~ pdf_returned.called
    /\ ~ web_returned.called

\* how many times a node appears in the trail of executed nodes
Executions(node) == Cardinality({i \in 1..Len(trace) : trace[i] = node})

\* C24: the nodes of a turn run in the order of the workflow: classify_intent
\* once and first, pdf_query and web_search at most once each and web_search
\* never before pdf_query, response at most once and after every other node,
\* at most four node executions in all; a turn that completes through the
\* workflow has run response exactly once, as its last node.
C24_NodeOrder ==
  /\ Len(trace) <= 4
  /\ trace # <<>> => trace[1] = "classify_intent"
  /\ Executions("classify_intent") <= 1
  /\ Executions("pdf_query") <= 1
  /\ Executions("web_search") <= 1
  /\ Executions("response") <= 1
  /\ \A i \in 1..Len(trace) : trace[i] = "response" => i = Len(trace)
  /\ \A i, j \in 1..Len(trace) :
       (trace[i] = "web_search" /\ trace[j] = "pdf_query") => j < i
  /\ Completed =>
       /\ Executions("classify_intent") = 1
       /\ Executions("response") = 1
       /\ trace[Len(trace)] = "response"

\* a turn has completed through all four nodes
C24_Witness ==
  /\ Completed
  /\ trace = <<"classify_intent", "pdf_query", "web_search", "response">>

\* the processing_steps trail of a turn state
StepsOf(s) == Get(Get(s, "metadata", EmptyDict), "processing_steps", <<>>)

IsPrefixOf(s, t) == Len(s) <= Len(t) /\ \A i \in 1..Len(s) : t[i] = s[i]

ClearOrEndHere ==
  ops' # ops /\ last_call'.op \in {"clear_conversation", "end_conversation"}

\* C26: every operation other than a clear or an end keeps the stored
\* messages of every conversation, in their order, as a prefix of its messages
\* afterwards, and removes no session: add_message appends exactly the one
\* new message at the end of the conversation it is called on, and
\* get_messages, get_context, update_context, get_conversation and
\* create_conversation change no message list.
C26_MessagesAppendOnly ==
  [][ ~ ClearOrEndHere =>
        /\ Len(store'.heap) >= Len(store.heap)
        /\ \A obj \in 1..Len(store.heap) :
             /\ IsPrefixOf(store.heap[obj].messages, store'.heap[obj].messages)
             /\ (ops' # ops /\ last_call'.op = "add_message" /\ last_call'.object = obj) =>
                  /\ Len(store'.heap[obj].messages) = Len(store.heap[obj].messages) + 1
                  /\ store'.heap[obj].messages[Len(store'.heap[obj].messages)] \in
                       { Message(m.role, m.content, m.metadata) : m \in AddedMessages }
             /\ (ops' # ops /\ ~ (last_call'.op = "add_message" /\ last_call'.object = obj)) =>
                  store'.heap[obj].messages = store.heap[obj].messages
        /\ \A k \in DOMAIN store.sessions :
             k \in DOMAIN store'.sessions /\ store'.sessions[k] = store.sessions[k]
    ]_vars

\* a conversation holds two messages, the second added to it after the first
C26_Witness ==
  /\ last_call.op = "add_message"
  /\ last_call.object \in 1..Len(store.heap)
  /\ Len(store.heap[last_call.object].messages) = 2
  /\ store.heap[last_call.object].messages[1] # store.heap[last_call.object].messages[2]

\* C27: the normalization of the turn state is idempotent: applied to a
\* state it has already normalized, whatever fields the first state lacked
\* (messages, metadata, intent, the clarification and search fields), it
\* changes nothing; and what it yields has every field it is to provide.
C27_Idempotent ==
  [][ /\ pc = "normalized" => state' = state
      /\ pc' = "normalized" =>
           /\ {"messages", "intent", "needs_clarification", "clarification_questions",
               "search_results", "metadata"} \subseteq DOMAIN state'
           /\ "intent_classification" \in DOMAIN state'["metadata"]
    ]_vars

\* a state that came with a string for metadata has been normalized twice
C27_Witness ==
  /\ pc = "normalized"
  /\ Len(trace) = 2
  /\ "_state" \in DOMAIN state["metadata"]
  /\ state["intent"] = "response"

\* the roles of the messages of a conversation, in order
RolesOf(conversation) == [i \in 1..Len(conversation.messages) |-> conversation.messages[i].role]

\* C28, the serialized half: when the caller sends each chat turn after the
\* one before has been answered, the history of every session alternates
\* strictly: user, assistant, user, assistant, ...
C28_SerialAlternates ==
  \A obj \in 1..Len(store.heap) :
    \A i \in 1..Len(store.heap[obj].messages) :
      store.heap[obj].messages[i].role = IF i % 2 = 1 THEN "user" ELSE "assistant"

\* C28, the concurrent half: two turns sent at once on session s1 have left
\* user1, user2, assistant2, assistant1 (the second request was answered when
\* the history held three messages, the first when it held four)
C28_RaceReached ==
  /\ chat["r1"].pc = "done" /\ chat["r1"].chat_request.session_id = "s1"
  /\ chat["r2"].pc = "done" /\ chat["r2"].chat_request.session_id = "s1"
  /\ ops = 0
  /\ RolesOf(Stored(store, "s1")) = <<"user", "user", "assistant", "assistant">>
  /\ Stored(store, "s1").messages[1].content = chat["r1"].chat_request.message
  /\ Stored(store, "s1").messages[2].content = chat["r2"].chat_request.message
  /\ Len(Get(chat["r2"].response, "conversation_history", <<>>)) = 3
  /\ Len(Get(chat["r1"].response, "conversation_history", <<>>)) = 4

\* C30: every chat request stores exactly one user message, its own, when it
\* arrives, and exactly one assistant message when it is answered, whatever
\* the outcome of the workflow and of the storing: no request stores an
\* assistant message without its user message.
C30_OneUserOneAssistant ==
  [][ \A r \in Requests :
        chat'[r] # chat[r] =>
          LET obj == chat'[r].conversation
              before == IF obj <= Len(store.heap) THEN store.heap[obj].messages ELSE <<>>
              after == store'.heap[obj].messages
          IN  /\ Len(after) = Len(before) + 1
              /\ IsPrefixOf(before, after)
              /\ chat[r].pc = "idle" =>
                   /\ chat'[r].pc = "awaiting"
                   /\ after[Len(after)].role = "user"
                   /\ after[Len(after)].content = chat'[r].chat_request.message
              /\ chat[r].pc = "awaiting" =>
                   /\ chat'[r].pc = "done"
                   /\ after[Len(after)].role = "assistant"
    ]_vars

\* the routing and the reply of a result: what does not name the session
RoutingAndReply(returned) ==
  [intent |-> Get(returned, "intent", "response"),
   message |-> Get(returned, "message", NotSureText),
   search_results |-> Get(returned, "search_results", <<>>)]

\* the text of the messages before the last, as the classify node joins it
\* for the classifier
HistoryGivenToClassifier(messages) == SubSeq(messages, 1, Len(messages) - 1)

====
